---- MODULE Spec2Model ----
(***************************************************************************)
(* Model of the umbra-xmr-bridge backend: the threshold-signing            *)
(* coordinator and signer (mpc/), the audit hash chain (services/          *)
(* audit_service.rs), the order store and state machine (models/order.rs,  *)
(* services/order_service.rs, routes/), the background drivers (tasks/),   *)
(* the rate limiter (middleware/rate_limit.rs) and the rate service        *)
(* (services/rate_service.rs).                                             *)
(***************************************************************************)
EXTENDS Integers, Sequences, FiniteSets, TLC

VARIABLES
    \* ---- mpc/coordinator.rs: MpcCoordinator
    threshold,          \* MpcCoordinator.threshold
    active_requests,    \* HashMap<String, SigningSession>
    used_request_ids,   \* HashSet<String>
    coord_ret,          \* the last coordinator call and what it returned
    sessions_created,   \* history: sessions ever created per request_id
    shares_accepted,    \* history: shares accepted per (request_id, signer id)
    \* ---- mpc/signer.rs: MpcSigner
    signer_id,          \* MpcSigner.signer_id, per signer object
    key_share,          \* Option<Vec<u8>>
    signed_hashes,      \* HashSet<String>
    signer_ret,         \* the last signer call and what it returned
    sigs_produced,      \* history: partial signatures returned per tx_data
    \* ---- the database, the event bus and the clock
    orders,             \* table bridge_orders, by order_id
    audit_logs,         \* table audit_logs (the hash chain), in id order
    audit_log,          \* table audit_log (written by the withdrawal processor)
    events,             \* messages published on order:{order_id}, in order
    bus_lossy,          \* whether a PUBLISH can fail in this run
    db_errors,          \* statements of the database that have failed so far
    now,                \* Utc::now()
    \* ---- tasks
    api,                \* in-flight API calls (order_service, routes)
    dm,                 \* tasks/deposit_monitor.rs loop
    cc,                 \* tasks/confirmation_checker.rs loop
    ex,                 \* tasks/expiry.rs loop (swept: `now` of the last finished sweep)
    wp,                 \* spawned tasks/withdrawal_processor.rs runs
    \* ---- middleware/rate_limit.rs and the Redis instance behind it
    ms,                 \* Utc::now().timestamp_millis()
    zsets,              \* Redis sorted sets, by key: entries (member, score)
    zttl,               \* Redis expiry time of each sorted-set key
    rl_reqs,            \* history: every check_rate_limit call and its answer
    \* ---- services/rate_service.rs
    cache,              \* Redis keys rate:{direction}, with their expiry time
    redis_errors,       \* cache commands Redis has failed so far
    exchange_rates,     \* table exchange_rates, in insertion order
    rate_events,        \* messages published on the rates channel
    rs,                 \* in-flight get_rate calls
    rate_calls          \* history: every get_rate call, what it did and returned

coordVars  == <<threshold, active_requests, used_request_ids, coord_ret,
               sessions_created, shares_accepted>>
signerVars == <<signer_id, key_share, signed_hashes, signer_ret, sigs_produced>>
dbVars     == <<orders, audit_logs, audit_log, events, bus_lossy, db_errors>>
taskVars   == <<api, dm, cc, ex, wp>>
orderVars  == <<dbVars, now, taskVars>>
limVars    == <<ms, zsets, zttl, rl_reqs>>
rateVars   == <<cache, redis_errors, exchange_rates, rate_events, rs, rate_calls>>
edgeVars   == <<limVars, rateVars>>
vars == <<coordVars, signerVars, orderVars, edgeVars>>

None == "None"

\* sha2::Sha256::digest followed by hex::encode: a collision-free digest
Sha256(x) == <<"sha256", x>>

(***************************************************************************)
(* mpc/coordinator.rs                                                      *)
(***************************************************************************)
RequestIds == {"req-1", "req-2"}
TxData     == {"tx-a", "tx-b"}
SignerIds  == {"signer-a", "signer-b", "signer-c"}
ShareBytes == {"share-1", "share-2"}
MaxThreshold == 3

\* String order of the signer ids (sort_by_key on the id)
SignerRank == [s \in SignerIds |->
                 CASE s = "signer-a" -> 1 [] s = "signer-b" -> 2 [] OTHER -> 3]

RECURSIVE OrderedShares(_, _)
OrderedShares(shares, ids) ==
    IF ids = {} THEN <<>>
    ELSE LET lo == CHOOSE s \in ids : \A o \in ids : SignerRank[s] <= SignerRank[o]
         IN <<shares[lo]>> \o OrderedShares(shares, ids \ {lo})

combine_shares(session) ==
    Sha256(<<"FROST-SIG:", session.tx_data_hash, ":",
             OrderedShares(session.shares, DOMAIN session.shares)>>)

NoCall == [op |-> "none"]

CoordInit ==
    /\ threshold \in 1..MaxThreshold
    /\ active_requests = <<>>
    /\ used_request_ids = {}
    /\ coord_ret = NoCall
    /\ sessions_created = [r \in RequestIds |-> 0]
    /\ shares_accepted = [r \in RequestIds |-> [g \in SignerIds |-> 0]]

\* request_signing under a bug that forgets a request id once its session is over
RequestIdTakenWhilePending(rid) ==
    /\ rid \in DOMAIN active_requests
    /\ active_requests[rid].status = "Pending"

\* the two rejections of request_signing
RequestIdTaken(rid) ==
    \/ rid \in used_request_ids
    \/ rid \in DOMAIN active_requests

request_signing(rid, tx) ==
    IF RequestIdTaken(rid)
    THEN /\ coord_ret' = [op |-> "request_signing", rid |-> rid, res |-> "Err"]
         /\ UNCHANGED <<threshold, active_requests, used_request_ids,
                        sessions_created, shares_accepted>>
    ELSE /\ active_requests' =
               [r \in DOMAIN active_requests \cup {rid} |->
                   IF r = rid
                   THEN [request_id |-> rid, tx_data_hash |-> Sha256(tx),
                         shares |-> <<>>, status |-> "Pending"]
                   ELSE active_requests[r]]
         /\ used_request_ids' = used_request_ids \cup {rid}
         /\ sessions_created' = [sessions_created EXCEPT ![rid] = @ + 1]
         /\ coord_ret' = [op |-> "request_signing", rid |-> rid, res |-> "Ok"]
         /\ UNCHANGED <<threshold, shares_accepted>>

RequestSigning == \E rid \in RequestIds, tx \in TxData : request_signing(rid, tx)

\* submit_share under a bug that drops the Pending check
ShareRejectedNoStatus(rid, signer) ==
    \/ rid \notin DOMAIN active_requests
    \/ signer \in DOMAIN active_requests[rid].shares

\* the rejections of submit_share, in the order of the code
ShareRejected(rid, signer) ==
    \/ rid \notin DOMAIN active_requests
    \/ active_requests[rid].status # "Pending"
    \/ signer \in DOMAIN active_requests[rid].shares

\* submit_share under an off-by-one: complete one share early
ThresholdMetEarly(n) == n + 1 >= threshold

ThresholdMet(n) == n >= threshold

submit_share(rid, signer, share) ==
    IF ShareRejected(rid, signer)
    THEN /\ coord_ret' = [op |-> "submit_share", rid |-> rid, signer |-> signer,
                          res |-> "Err"]
         /\ UNCHANGED <<threshold, active_requests, used_request_ids,
                        sessions_created, shares_accepted>>
    ELSE LET session == active_requests[rid]
             stored  == [session EXCEPT !.shares =
                            [s \in DOMAIN session.shares \cup {signer} |->
                                IF s = signer THEN share ELSE session.shares[s]]]
         IN /\ shares_accepted' = [shares_accepted EXCEPT ![rid][signer] = @ + 1]
            /\ UNCHANGED <<threshold, used_request_ids, sessions_created>>
            /\ IF ThresholdMet(Cardinality(DOMAIN stored.shares))
               THEN /\ active_requests' =
                          [active_requests EXCEPT ![rid] = [stored EXCEPT !.status = "Complete"]]
                    /\ coord_ret' = [op |-> "submit_share", rid |-> rid, signer |-> signer,
                                     res |-> "Some", sig |-> combine_shares(stored)]
               ELSE /\ active_requests' = [active_requests EXCEPT ![rid] = stored]
                    /\ coord_ret' = [op |-> "submit_share", rid |-> rid, signer |-> signer,
                                     res |-> "NoneYet"]

SubmitShare ==
    \E rid \in RequestIds, signer \in SignerIds, share \in ShareBytes :
        submit_share(rid, signer, share)

fail_session(rid) ==
    /\ IF rid \in DOMAIN active_requests
       THEN active_requests' = [active_requests EXCEPT ![rid].status = "Failed"]
       ELSE UNCHANGED active_requests
    /\ coord_ret' = [op |-> "fail_session", rid |-> rid, res |-> "Ok"]
    /\ UNCHANGED <<threshold, used_request_ids, sessions_created, shares_accepted>>

FailSession == \E rid \in RequestIds : fail_session(rid)

NextCoord ==
    \/ RequestSigning /\ UNCHANGED <<signerVars, orderVars, edgeVars>>
    \/ SubmitShare /\ UNCHANGED <<signerVars, orderVars, edgeVars>>
    \/ FailSession /\ UNCHANGED <<signerVars, orderVars, edgeVars>>

(***************************************************************************)
(* mpc/signer.rs                                                           *)
(***************************************************************************)
KeyShares   == {"ks-1", "ks-2"}
SignerNames == {"signer-1", "signer-2"}
Signers     == {"A", "B"}          \* the MpcSigner objects

\* MpcSigner::new(signer_id)
SignerInit ==
    /\ signer_id \in [Signers -> SignerNames]
    /\ key_share = [i \in Signers |-> None]
    /\ signed_hashes = [i \in Signers |-> {}]
    /\ signer_ret = NoCall
    /\ sigs_produced = [i \in Signers |-> [t \in TxData |-> 0]]

set_key_share(i, share) ==
    /\ key_share' = [key_share EXCEPT ![i] = share]
    /\ signer_ret' = [op |-> "set_key_share", signer |-> i, res |-> "Ok"]
    /\ UNCHANGED <<signer_id, signed_hashes, sigs_produced>>

SetKeyShare == \E i \in Signers, share \in KeyShares : set_key_share(i, share)

\* sign under a bug that never records what it signed
RecordSignedNever(i, tx_hash) == signed_hashes

RecordSigned(i, tx_hash) == [signed_hashes EXCEPT ![i] = @ \cup {tx_hash}]

\* a partial signature that also depends on what the signers signed before
PartialSigStateful(share, id, tx) == Sha256(<<share, id, tx, signed_hashes>>)

\* partial_sig = SHA256(key_share || signer_id || tx_data)
PartialSig(share, id, tx) == Sha256(<<share, id, tx>>)

sign(i, tx) ==
    IF key_share[i] = None
    THEN /\ signer_ret' = [op |-> "sign", signer |-> i, tx |-> tx, res |-> "Err",
                           why |-> "no key share"]
         /\ UNCHANGED <<signer_id, key_share, signed_hashes, sigs_produced>>
    ELSE LET tx_hash == Sha256(tx) IN
         IF tx_hash \in signed_hashes[i]
         THEN /\ signer_ret' = [op |-> "sign", signer |-> i, tx |-> tx, res |-> "Err",
                                why |-> "replay"]
              /\ UNCHANGED <<signer_id, key_share, signed_hashes, sigs_produced>>
         ELSE /\ signed_hashes' = RecordSigned(i, tx_hash)
              /\ sigs_produced' = [sigs_produced EXCEPT ![i][tx] = @ + 1]
              /\ signer_ret' = [op |-> "sign", signer |-> i, tx |-> tx, res |-> "Ok",
                                sig |-> PartialSig(key_share[i], signer_id[i], tx)]
              /\ UNCHANGED <<signer_id, key_share>>

Sign == \E i \in Signers, tx \in TxData : sign(i, tx)

NextSigner ==
    \/ SetKeyShare /\ UNCHANGED <<coordVars, orderVars, edgeVars>>
    \/ Sign /\ UNCHANGED <<coordVars, orderVars, edgeVars>>

(***************************************************************************)
(* models/order.rs: OrderStatus                                            *)
(***************************************************************************)
Statuses == {"Created", "AwaitingDeposit", "DepositDetected", "Confirming",
             "Bridging", "Signing", "Sending", "Completed",
             "Failed", "Refunding", "Refunded", "Expired"}

\* step under a slip that drops the sign of the expired step
step_unsigned(s) ==
    CASE s = "Created"         -> 0
      [] s = "AwaitingDeposit" -> 1
      [] s = "DepositDetected" -> 2
      [] s = "Confirming"      -> 3
      [] s = "Bridging"        -> 4
      [] s = "Signing"         -> 5
      [] s = "Sending"         -> 6
      [] s = "Completed"       -> 7
      [] s = "Failed"          -> -1
      [] s = "Refunding"       -> -2
      [] s = "Refunded"        -> -3
      [] s = "Expired"         -> 4

step(s) ==
    CASE s = "Created"         -> 0
      [] s = "AwaitingDeposit" -> 1
      [] s = "DepositDetected" -> 2
      [] s = "Confirming"      -> 3
      [] s = "Bridging"        -> 4
      [] s = "Signing"         -> 5
      [] s = "Sending"         -> 6
      [] s = "Completed"       -> 7
      [] s = "Failed"          -> -1
      [] s = "Refunding"       -> -2
      [] s = "Refunded"        -> -3
      [] s = "Expired"         -> -4

is_terminal(s) == s \in {"Completed", "Failed", "Refunded", "Expired"}

\* the table under a slip that lets an order skip from Created to Bridging
valid_transitions_skip(s) ==
    CASE s = "Created"         -> {"AwaitingDeposit", "Expired", "Failed", "Bridging"}
      [] s = "AwaitingDeposit" -> {"DepositDetected", "Expired", "Failed"}
      [] s = "DepositDetected" -> {"Confirming", "Failed"}
      [] s = "Confirming"      -> {"Bridging", "Failed"}
      [] s = "Bridging"        -> {"Signing", "Failed"}
      [] s = "Signing"         -> {"Sending", "Failed"}
      [] s = "Sending"         -> {"Completed", "Failed"}
      [] s = "Completed"       -> {}
      [] s = "Failed"          -> {"Refunding"}
      [] s = "Refunding"       -> {"Refunded", "Failed"}
      [] s = "Refunded"        -> {}
      [] s = "Expired"         -> {}

valid_transitions(s) ==
    CASE s = "Created"         -> {"AwaitingDeposit", "Expired", "Failed"}
      [] s = "AwaitingDeposit" -> {"DepositDetected", "Expired", "Failed"}
      [] s = "DepositDetected" -> {"Confirming", "Failed"}
      [] s = "Confirming"      -> {"Bridging", "Failed"}
      [] s = "Bridging"        -> {"Signing", "Failed"}
      [] s = "Signing"         -> {"Sending", "Failed"}
      [] s = "Sending"         -> {"Completed", "Failed"}
      [] s = "Completed"       -> {}
      [] s = "Failed"          -> {"Refunding"}
      [] s = "Refunding"       -> {"Refunded", "Failed"}
      [] s = "Refunded"        -> {}
      [] s = "Expired"         -> {}

can_transition_to(s, next) == next \in valid_transitions(s)

Chains == {"TON"}

confirmations_for_chain(chain) ==
    CASE chain = "XMR"  -> 10
      [] chain = "BTC"  -> 3
      [] chain = "ETH"  -> 12
      [] chain = "TON"  -> 1
      [] chain = "SOL"  -> 32
      [] chain = "ARB"  -> 1
      [] chain = "BASE" -> 1
      [] OTHER          -> 12

(***************************************************************************)
(* The store, the audit chain and the event bus                            *)
(***************************************************************************)
Handles  == {"br_1"}
NoRow    == [status |-> "absent"]
Tasks    == {"t1", "t2"}
MaxTime  == 1
MaxDbErrors == 1        \* statements the database fails in one run
MaxAudit == 5           \* audit_logs rows the model lets the API calls write
OrderExpiryMinutes == 0  \* config.order_expiry_minutes, in ticks of the clock
default_slippage == 50   \* Decimal::new(5, 1), in hundredths of a percent
min_slip == 10           \* Decimal::new(1, 1)
max_slip == 500          \* Decimal::new(5, 0)

Exists(h) == orders[h] # NoRow

Append1(seq, e) == seq \o <<e>>

\* "0".repeat(64)
ZeroHash == "0000000000000000000000000000000000000000000000000000000000000000"

\* serde_json::to_string
Json(details) == <<"json", details>>

\* SELECT content_hash FROM audit_logs ORDER BY id DESC LIMIT 1
LastContentHash ==
    IF audit_logs = <<>> THEN ZeroHash ELSE audit_logs[Len(audit_logs)].content_hash

\* the row audit_service::log inserts for the prev_hash it read
AuditRow(a, prev_hash) ==
    [action |-> a.action, entity_type |-> a.entity_type, entity_id |-> a.entity_id,
     details |-> a.details, actor |-> a.actor, prev_hash |-> prev_hash,
     content_hash |-> Sha256(<<a.action, a.entity_type, a.entity_id,
                               Json(a.details), a.actor, prev_hash>>)]

\* redis PUBLISH on order:{order_id}; a failed PUBLISH loses the message
Publish(h, msg) ==
    events' \in {[events EXCEPT ![h] = Append1(@, msg)]} \cup
                (IF bus_lossy THEN {events} ELSE {})

\* a statement fails with a database error / runs
DbError == db_errors < MaxDbErrors /\ db_errors' = db_errors + 1
DbOk    == db_errors' = db_errors

Idle == [pc |-> "idle", op |-> "none", ret |-> "none"]
\* the call `op` has returned `r` to its caller
Returned(op, r) == [pc |-> "idle", op |-> op, ret |-> r]

\* audit_logs rows an in-flight API call may still write
RowsToCome(t) ==
    IF api[t].pc = "idle" THEN 0
    ELSE IF api[t].op = "refund" /\ (api[t].pc \in {"us_read", "us_update"}
                                     \/ api[t].entry.action = "status_changed") THEN 2
    ELSE 1

RECURSIVE SumRowsToCome(_)
SumRowsToCome(ts) ==
    IF ts = {} THEN 0
    ELSE LET t == CHOOSE x \in ts : TRUE IN RowsToCome(t) + SumRowsToCome(ts \ {t})

\* API calls that write are let in while the audit table has room for their rows
AuditRoom(n) == Len(audit_logs) + SumRowsToCome(DOMAIN api) + n <= MaxAudit

(***************************************************************************)
(* rust_decimal::Decimal and services/rate_service.rs calculate_conversion *)
(***************************************************************************)
\* Decimal::new(m, s): the number m / 10^s
Dec(m, s) == [m |-> m, s |-> s]

RECURSIVE Pow10(_)
Pow10(k) == IF k = 0 THEN 1 ELSE 10 * Pow10(k - 1)

Max(a, b) == IF a >= b THEN a ELSE b

\* the mantissa of x at scale s >= x.s
Rescaled(x, s) == x.m * Pow10(s - x.s)

\* PartialEq of Decimal compares the numbers, whatever their scales
DecEq(a, b) == Rescaled(a, Max(a.s, b.s)) = Rescaled(b, Max(a.s, b.s))

DecMul(a, b) == Dec(a.m * b.m, a.s + b.s)
DecSub(a, b) == Dec(Rescaled(a, Max(a.s, b.s)) - Rescaled(b, Max(a.s, b.s)), Max(a.s, b.s))

\* Div: the quotient is extended digit by digit until the remainder is zero
\* (all quotients of the model terminate well inside the 28 digits of a Decimal)
DecDiv(a, b) ==
    LET ks == {k \in 0..4 : (a.m * Pow10(k)) % b.m = 0}
        k  == CHOOSE x \in ks : \A y \in ks : x <= y
    IN Dec((a.m * Pow10(k)) \div b.m, a.s + k - b.s)

hundred == Dec(100, 0)
DecOne  == Dec(1, 0)

\* calculate_conversion under a slip that applies the rate to the gross amount
calculate_conversion_gross(amount, rate, fee_percent, slippage) ==
    LET fee          == DecDiv(DecMul(amount, fee_percent), hundred)
        to_amount    == DecMul(amount, rate)
        min_received == DecMul(to_amount, DecSub(DecOne, DecDiv(slippage, hundred)))
    IN [from_amount |-> amount, to_amount |-> to_amount, rate |-> rate, fee |-> fee,
        fee_percent |-> fee_percent, min_received |-> min_received]

calculate_conversion(amount, rate, fee_percent, slippage) ==
    LET fee          == DecDiv(DecMul(amount, fee_percent), hundred)
        net_amount   == DecSub(amount, fee)
        to_amount    == DecMul(net_amount, rate)
        min_received == DecMul(to_amount, DecSub(DecOne, DecDiv(slippage, hundred)))
    IN [from_amount |-> amount, to_amount |-> to_amount, rate |-> rate, fee |-> fee,
        fee_percent |-> fee_percent, min_received |-> min_received]

\* the inputs of a conversion: amounts, rates, config.bridge_fee_percent and
\* slippages in percent
DecAmounts     == {Dec(15, 1), Dec(1, 0), Dec(2, 0)}
DecRates       == {Dec(5, 3), Dec(2, 0), Dec(25, 2)}
FeePercents    == {Dec(3, 1), Dec(1, 0)}
DecSlippages   == {Dec(5, 1), Dec(1, 1), Dec(5, 0)}

(***************************************************************************)
(* services/order_service.rs and routes/                                   *)
(***************************************************************************)

\* create_order: INSERT INTO bridge_orders ... RETURNING *, with the columns
\* of the conversion
CreateOrderWith(t, h, chain, conversion, slippage) ==
        /\ api[t].pc = "idle"
        /\ ~Exists(h)
        /\ AuditRoom(1)
        /\ orders' = [orders EXCEPT ![h] =
              [status |-> "Created", step |-> step("Created"),
               source_chain |-> chain, slippage |-> slippage,
               from_amount |-> conversion.from_amount, to_amount |-> conversion.to_amount,
               rate_at_creation |-> conversion.rate, fee |-> conversion.fee,
               fee_percent |-> conversion.fee_percent,
               min_received |-> conversion.min_received,
               deposit_address |-> None, deposit_tx_hash |-> None,
               withdrawal_tx_hash |-> None, error_message |-> None,
               confirmations_current |-> 0,
               confirmations_required |-> confirmations_for_chain(chain),
               expires_at |-> now + OrderExpiryMinutes, created_at |-> now]]
        /\ api' = [api EXCEPT ![t] =
              [pc |-> "audit_select", op |-> "create", h |-> h, ret |-> "none",
               entry |-> [action |-> "order_created", entity_type |-> "bridge_order",
                          entity_id |-> h, details |-> [direction |-> chain],
                          actor |-> "system"],
               msg |-> "created"]]
        /\ UNCHANGED <<audit_logs, audit_log, events, bus_lossy, db_errors, now, dm, cc, ex, wp>>

\* create_order for one unit at the rate 0.005 and the default fee of 0.3 %;
\* slippage in hundredths of a percent
CreateOrderCall(t, h, chain, slippage) ==
    CreateOrderWith(t, h, chain,
        calculate_conversion(Dec(1, 0), Dec(5, 3), Dec(3, 1), Dec(slippage, 2)), slippage)

\* create_order for every amount, rate, fee and slippage
CreateOrderConv(t) ==
    \E h \in Handles, chain \in Chains, amount \in DecAmounts, rate \in DecRates,
       fee_percent \in FeePercents, slippage \in DecSlippages :
        CreateOrderWith(t, h, chain,
            calculate_conversion(amount, rate, fee_percent, slippage), slippage)

\* what a price source reports for one asset: no ticker for it, or the text of
\* its price in USD
PriceTexts == {"missing", "n/a", "0", "2", "4"}

\* t.price.parse().unwrap_or(0.0)
parse_price(text) ==
    CASE text = "2" -> 2
      [] text = "4" -> 4
      [] OTHER      -> 0

\* get_rate on a miss, from the prices of the two assets: the error of a
\* missing price or of a zero denominator, or the cross rate as a Decimal
cross_rate(from_text, to_text) ==
    IF from_text = "missing" \/ to_text = "missing"
    THEN [ok |-> FALSE, rate |-> Dec(0, 0)]
    ELSE IF parse_price(to_text) = 0
    THEN [ok |-> FALSE, rate |-> Dec(0, 0)]
    ELSE [ok |-> TRUE,
          rate |-> DecDiv(Dec(parse_price(from_text), 0), Dec(parse_price(to_text), 0))]

\* create_order with the rate get_rate returns for the reported prices; the
\* error of get_rate is returned before anything is written
CreateOrderQuoted(t) ==
    \E from_text \in PriceTexts, to_text \in PriceTexts :
        LET quote == cross_rate(from_text, to_text)
        IN IF quote.ok
           THEN \E h \in Handles, chain \in Chains, amount \in DecAmounts,
                   fee_percent \in FeePercents, slippage \in DecSlippages :
                    CreateOrderWith(t, h, chain,
                        calculate_conversion(amount, quote.rate, fee_percent, slippage),
                        slippage)
           ELSE /\ api[t].pc = "idle"
                /\ api' = [api EXCEPT ![t] = Returned("create", "Internal")]
                /\ UNCHANGED <<dbVars, now, dm, cc, ex, wp>>

\* order_service::create_order for a request that leaves slippage to its default
CreateOrder(t) ==
    \E h \in Handles, chain \in Chains : CreateOrderCall(t, h, chain, default_slippage)

\* String::to_uppercase on the words a request may carry
to_uppercase(c) ==
    CASE c = "ton" -> "TON"
      [] c = "xmr" -> "XMR"
      [] c = "btc" -> "BTC"
      [] c = "to"  -> "TO"
      [] OTHER     -> c

\* utils/validation.rs: SUPPORTED_CHAINS
SUPPORTED_CHAINS == {"XMR", "BTC", "ETH", "TON", "SOL", "ARB", "BASE", "USDC", "USDT"}
is_valid_chain(chain) == to_uppercase(chain) \in SUPPORTED_CHAINS

\* a raw TON address and a standard XMR address; a request carries the latter
\* or a string that matches no format
TonAddr == "0:<64 hex>"
XmrAddr == "4<94 base58>"
Addresses == {XmrAddr, "junk"}
validate_address(chain, address) ==
    CASE to_uppercase(chain) = "XMR" -> address = XmrAddr
      [] to_uppercase(chain) = "TON" -> address = TonAddr
      [] OTHER                       -> FALSE

\* POST /v1/order bodies; amount in whole units, slippage in hundredths of a percent
Amounts    == {0, 1}
Slippages  == {9, 10, 500, 501}
Requests ==
    [source_chain : {"ton", "DOGE"}, dest_chain : {"XMR", "TON", "DOGE"},
     amount : Amounts, dest_address : Addresses, slippage : Slippages]

\* validate_create_request under a bug that rejects the two bounds as well
validate_create_request_open(req) ==
    IF req.amount <= 0 THEN "BadRequest"
    ELSE IF ~is_valid_chain(req.source_chain) THEN "BadRequest"
    ELSE IF ~is_valid_chain(req.dest_chain) THEN "BadRequest"
    ELSE IF to_uppercase(req.source_chain) = to_uppercase(req.dest_chain) THEN "BadRequest"
    ELSE IF ~validate_address(req.dest_chain, req.dest_address) THEN "BadRequest"
    ELSE IF req.slippage <= min_slip \/ req.slippage >= max_slip THEN "BadRequest"
    ELSE "Ok"

validate_create_request(req) ==
    IF req.amount <= 0 THEN "BadRequest"
    ELSE IF ~is_valid_chain(req.source_chain) THEN "BadRequest"
    ELSE IF ~is_valid_chain(req.dest_chain) THEN "BadRequest"
    ELSE IF to_uppercase(req.source_chain) = to_uppercase(req.dest_chain) THEN "BadRequest"
    ELSE IF ~validate_address(req.dest_chain, req.dest_address) THEN "BadRequest"
    ELSE IF req.slippage < min_slip \/ req.slippage > max_slip THEN "BadRequest"
    ELSE "Ok"

\* format!("{}_TO_{}", params.source_chain, params.dest_chain)
direction_of(req) == to_uppercase(req.source_chain) \o "_TO_" \o to_uppercase(req.dest_chain)

\* the symbols fetch_coingecko, fetch_binance and fetch_coincap can price
PricedSymbols == {"XMR", "BTC", "ETH", "TON", "SOL", "USDT", "USDC"}

\* routes/orders.rs create_order: validation, then order_service::create_order,
\* whose get_rate may fail before anything is written, and does fail for a
\* chain without a USD price
PostOrderCall(t, req) ==
    /\ api[t].pc = "idle"
    /\ IF validate_create_request(req) # "Ok"
       THEN /\ api' = [api EXCEPT ![t] = Returned("create", "BadRequest")]
            /\ UNCHANGED <<dbVars, now, dm, cc, ex, wp>>
       ELSE \/ /\ {to_uppercase(req.source_chain), to_uppercase(req.dest_chain)}
                      \subseteq PricedSymbols
               /\ \E h \in Handles :
                     CreateOrderCall(t, h, to_uppercase(req.source_chain), req.slippage)
            \/ /\ api' = [api EXCEPT ![t] = Returned("create", "Internal")]
               /\ UNCHANGED <<dbVars, now, dm, cc, ex, wp>>

PostOrder(t) == \E req \in Requests : PostOrderCall(t, req)

\* get_order + the state-machine check of update_status
UsCheck(t, h, new_status, op) ==
    IF ~Exists(h)
    THEN /\ api' = [api EXCEPT ![t] = Returned(op, "NotFound")]
         /\ UNCHANGED <<dbVars, now, dm, cc, ex, wp>>
    ELSE IF ~can_transition_to(orders[h].status, new_status)
    THEN /\ api' = [api EXCEPT ![t] = Returned(op, "Conflict")]
         /\ UNCHANGED <<dbVars, now, dm, cc, ex, wp>>
    ELSE /\ api' = [api EXCEPT ![t] =
               [pc |-> "us_update", op |-> op, h |-> h, ret |-> "none",
                cur |-> orders[h].status, new_status |-> new_status]]
         /\ UNCHANGED <<dbVars, now, dm, cc, ex, wp>>

\* update_status(order_id, new_status), up to its first await after get_order
UpdateStatusCall(t, h, new_status) ==
    /\ api[t].pc = "idle"
    /\ (Exists(h) /\ can_transition_to(orders[h].status, new_status)) => AuditRoom(1)
    /\ UsCheck(t, h, new_status, "update_status")

UpdateStatus(t, targets) == \E h \in Handles, s \in targets : UpdateStatusCall(t, h, s)

\* update_status as called from cancel_order and admin_refund
UsRead(t) ==
    /\ api[t].pc = "us_read"
    /\ UsCheck(t, api[t].h, api[t].new_status, api[t].op)

\* UPDATE bridge_orders SET status, step, updated_at WHERE order_id = $4
UsUpdate(t) ==
    /\ api[t].pc = "us_update"
    /\ LET h == api[t].h
           s == api[t].new_status
       IN /\ orders' = [orders EXCEPT ![h].status = s, ![h].step = step(s)]
          /\ api' = [api EXCEPT ![t] =
                [pc |-> "audit_select", op |-> api[t].op, h |-> h, ret |-> "none",
                 entry |-> [action |-> "status_changed", entity_type |-> "bridge_order",
                            entity_id |-> h,
                            details |-> [from |-> api[t].cur, to |-> s],
                            actor |-> "system"],
                 msg |-> s]]
    /\ UNCHANGED <<audit_logs, audit_log, events, bus_lossy, db_errors, now, dm, cc, ex, wp>>

\* audit_service::log: SELECT content_hash ... ORDER BY id DESC LIMIT 1
AuditSelect(t) ==
    /\ api[t].pc = "audit_select"
    /\ api' = [api EXCEPT ![t] = [@ EXCEPT !.pc = "audit_insert"] @@
                                 [prev_hash |-> LastContentHash]]
    /\ UNCHANGED <<dbVars, now, dm, cc, ex, wp>>

\* what follows a successful audit_service::log in the caller
AfterAudit(t) ==
    IF api[t].op = "refund" /\ api[t].entry.action = "status_changed"
    THEN [pc |-> "audit_select", op |-> "refund", h |-> api[t].h, ret |-> "none",
          entry |-> [action |-> "admin_refund_initiated", entity_type |-> "bridge_order",
                     entity_id |-> api[t].h,
                     details |-> [admin |-> "admin", prev_status |-> "failed"],
                     actor |-> "admin"],
          msg |-> None]
    ELSE Returned(api[t].op, "Ok")

\* the rows if the UPDATE and the audit INSERT shared a transaction that the
\* failed INSERT rolls back
AuditErrorRollsBack(t) ==
    IF api[t].entry.action = "status_changed"
    THEN [orders EXCEPT ![api[t].h].status = api[t].entry.details.from,
                        ![api[t].h].step = step(api[t].entry.details.from)]
    ELSE orders

\* the rows after a failed audit INSERT: every statement ran on the pool on
\* its own, so what was written before stays written
AuditErrorLeaves(t) == orders

\* audit_service::log: INSERT INTO audit_logs, then the caller's publish
AuditInsert(t) ==
    /\ api[t].pc = "audit_insert"
    /\ \/ /\ DbOk
          /\ audit_logs' = Append1(audit_logs, AuditRow(api[t].entry, api[t].prev_hash))
          /\ IF api[t].msg = None THEN UNCHANGED events
                                  ELSE Publish(api[t].h, api[t].msg)
          /\ api' = [api EXCEPT ![t] = AfterAudit(t)]
          /\ UNCHANGED orders
       \/ \* the INSERT fails: `.await?` returns the error to the caller
          /\ DbError
          /\ api' = [api EXCEPT ![t] = Returned(api[t].op, "DbError")]
          /\ orders' = AuditErrorLeaves(t)
          /\ UNCHANGED <<audit_logs, events>>
    /\ UNCHANGED <<audit_log, bus_lossy, now, dm, cc, ex, wp>>

\* cancel_order under a bug that also lets a created order through
CancellableOrCreated(status) == status \in {"AwaitingDeposit", "Created"}

\* if order.status != OrderStatus::AwaitingDeposit { return Err(Conflict) }
Cancellable(status) == status = "AwaitingDeposit"

\* cancel_order, up to its call of update_status
CancelCall(t, h) ==
    /\ api[t].pc = "idle"
    /\ (Exists(h) /\ Cancellable(orders[h].status)) => AuditRoom(1)
    /\ IF ~Exists(h)
       THEN api' = [api EXCEPT ![t] = Returned("cancel", "NotFound")]
       ELSE IF ~Cancellable(orders[h].status)
       THEN api' = [api EXCEPT ![t] = Returned("cancel", "Conflict")]
       ELSE api' = [api EXCEPT ![t] =
                [pc |-> "us_read", op |-> "cancel", h |-> h, ret |-> "none",
                 new_status |-> "Expired"]]
    /\ UNCHANGED <<dbVars, now, dm, cc, ex, wp>>

CancelOrder(t) == \E h \in Handles : CancelCall(t, h)

\* admin_refund under a bug that also lets a created order through
RefundableOrCreated(status) == status \in {"Failed", "Created"}

\* if order.status != OrderStatus::Failed { return Err(Conflict) }
Refundable(status) == status = "Failed"

\* admin_refund, up to its call of update_status
RefundCall(t, h, jwt_ok) ==
    /\ api[t].pc = "idle"
    /\ (jwt_ok /\ Exists(h) /\ Refundable(orders[h].status)) => AuditRoom(2)
    /\ IF ~jwt_ok
       THEN api' = [api EXCEPT ![t] = Returned("refund", "Unauthorized")]
       ELSE IF ~Exists(h)
       THEN api' = [api EXCEPT ![t] = Returned("refund", "NotFound")]
       ELSE IF ~Refundable(orders[h].status)
       THEN api' = [api EXCEPT ![t] = Returned("refund", "Conflict")]
       ELSE api' = [api EXCEPT ![t] =
                [pc |-> "us_read", op |-> "refund", h |-> h, ret |-> "none",
                 new_status |-> "Refunding"]]
    /\ UNCHANGED <<dbVars, now, dm, cc, ex, wp>>

AdminRefund(t) == \E h \in Handles, jwt_ok \in BOOLEAN : RefundCall(t, h, jwt_ok)

\* the clock
Tick ==
    /\ now < MaxTime
    /\ now' = now + 1
    /\ UNCHANGED <<dbVars, taskVars>>

(***************************************************************************)
(* tasks/deposit_monitor.rs                                                *)
(***************************************************************************)
Procs == {"p1", "p2"}

\* the rows in `sel`, as a list ordered by created_at ASC
RowsByCreatedAt(sel) ==
    {q \in [1..Cardinality(sel) -> sel] :
        /\ \A i, j \in DOMAIN q : i # j => q[i] # q[j]
        /\ \A i, j \in DOMAIN q : i < j => orders[q[i]].created_at <= orders[q[j]].created_at}

\* the columns of the selected rows that the loops read later
DmSnapshot(q) == [i \in DOMAIN q |->
    [h |-> q[i], source_chain |-> orders[q[i]].source_chain,
     deposit_address |-> orders[q[i]].deposit_address]]
CcSnapshot(q) == [i \in DOMAIN q |->
    [h |-> q[i], status |-> orders[q[i]].status,
     source_chain |-> orders[q[i]].source_chain,
     confirmations_current |-> orders[q[i]].confirmations_current]]

\* check_deposit: Ok(None) without a deposit_address, and Ok(None) from the
\* arm of every chain
check_deposit(order) ==
    IF order.deposit_address = None THEN "None"
    ELSE CASE order.source_chain \in {"XMR", "BTC", "TON", "SOL"} -> "None"
           [] order.source_chain \in {"ETH", "ARB", "BASE", "USDC", "USDT"} -> "None"
           [] OTHER -> "None"

\* poll_deposits: SELECT ... WHERE status = 'awaiting_deposit'
DmSelect ==
    /\ dm.pc = "idle"
    /\ \E q \in RowsByCreatedAt({h \in Handles : Exists(h) /\ orders[h].status = "AwaitingDeposit"}) :
          dm' = IF q = <<>> THEN [pc |-> "idle"] ELSE [pc |-> "loop", list |-> DmSnapshot(q)]
    /\ dm'.pc = "loop"
    /\ UNCHANGED <<dbVars, now, api, cc, ex, wp>>

\* ... WHERE id = $4 AND status = 'awaiting_deposit'
DepositGuard(h) == orders[h].status = "AwaitingDeposit"

\* poll_deposits: one iteration of `for order in &orders`
DmStep ==
    /\ dm.pc = "loop"
    /\ LET order == Head(dm.list)
           rest  == Tail(dm.list)
       IN /\ IF check_deposit(order) = "Some" /\ DepositGuard(order.h)
             THEN orders' = [orders EXCEPT ![order.h].status = "DepositDetected",
                                           ![order.h].step = step("DepositDetected"),
                                           ![order.h].deposit_tx_hash = "deposit-tx"]
             ELSE UNCHANGED orders
          /\ dm' = IF rest = <<>> THEN [pc |-> "idle"] ELSE [pc |-> "loop", list |-> rest]
    /\ UNCHANGED <<audit_logs, audit_log, events, bus_lossy, db_errors, now, api, cc, ex, wp>>

(***************************************************************************)
(* tasks/confirmation_checker.rs                                           *)
(***************************************************************************)
\* fetch_confirmations if the chain's answer ran ahead of the stored count
fetch_confirmations_ahead(order) == order.confirmations_current + 2

\* fetch_confirmations: the arm of every supported chain returns the stored
\* count, the arm of an unsupported chain 0
fetch_confirmations(order) ==
    IF order.source_chain \in {"XMR", "BTC", "ETH", "ARB", "BASE", "USDC", "USDT", "TON", "SOL"}
    THEN order.confirmations_current
    ELSE 0

\* poll_confirmations: SELECT ... WHERE status IN ('deposit_detected', 'confirming')
CcSelect ==
    /\ cc.pc = "idle"
    /\ \E q \in RowsByCreatedAt({h \in Handles : Exists(h) /\
                    orders[h].status \in {"DepositDetected", "Confirming"}}) :
          cc' = IF q = <<>> THEN [pc |-> "idle"] ELSE [pc |-> "loop", list |-> CcSnapshot(q)]
    /\ cc'.pc = "loop"
    /\ UNCHANGED <<dbVars, now, api, dm, ex, wp>>

\* the status under a slip that leaves an order below the threshold where it is
CcNewStatusStay(order, current, required) ==
    IF current >= required THEN "Bridging" ELSE order.status

\* the status poll_confirmations writes for an observed count
CcNewStatus(order, current, required) ==
    IF current >= required THEN "Bridging" ELSE "Confirming"

\* tokio::spawn(process_withdrawal(state, order_id))
Spawn(h) ==
    \E p \in Procs :
        /\ wp[p].pc = "idle"
        /\ wp' = [wp EXCEPT ![p] = [pc |-> "start", h |-> h]]

\* poll_confirmations: one iteration of `for order in &orders`
CcStep ==
    /\ cc.pc = "loop"
    /\ LET order == Head(cc.list)
           rest  == Tail(cc.list)
           h     == order.h
       IN /\ cc' = IF rest = <<>> THEN [pc |-> "idle"] ELSE [pc |-> "loop", list |-> rest]
          /\ LET current    == fetch_confirmations(order)
                 required   == confirmations_for_chain(order.source_chain)
                 new_status == CcNewStatus(order, current, required)
             IN IF new_status # order.status \/ current # order.confirmations_current
                THEN /\ orders' = [orders EXCEPT
                           ![h].status = new_status,
                           ![h].step = step(new_status),
                           ![h].confirmations_current = current,
                           ![h].confirmations_required = required]
                     /\ Publish(h, new_status)
                     /\ IF new_status = "Bridging" THEN Spawn(h) ELSE UNCHANGED wp
                ELSE UNCHANGED <<orders, events, wp>>
    /\ UNCHANGED <<audit_logs, audit_log, bus_lossy, db_errors, now, api, dm, ex>>

\* poll_deposits: the SELECT fails, `.await?` ends the tick with the error,
\* which run() logs
DmSelectErr ==
    /\ dm.pc = "idle"
    /\ DbError
    /\ dm' = [pc |-> "idle", ret |-> "Err"]
    /\ UNCHANGED <<orders, audit_logs, audit_log, events, bus_lossy, now, api, cc, ex, wp>>

\* the rows if the checker marked the order of a failed iteration as failed
CcErrorFails ==
    [orders EXCEPT ![Head(cc.list).h].status = "Failed",
                   ![Head(cc.list).h].step = step("Failed")]

\* the rows after a failed iteration of the checker: the error is only
\* propagated and logged
CcErrorLeaves == orders

\* poll_confirmations: the UPDATE of one iteration fails, `.await?` ends the
\* tick with the error, which run() logs; the rest of the list is not visited
CcStepErr ==
    /\ cc.pc = "loop"
    /\ LET order      == Head(cc.list)
           current    == fetch_confirmations(order)
           required   == confirmations_for_chain(order.source_chain)
           new_status == CcNewStatus(order, current, required)
       IN new_status # order.status \/ current # order.confirmations_current
    /\ DbError
    /\ cc' = [pc |-> "idle", ret |-> "Err"]
    /\ orders' = CcErrorLeaves
    /\ UNCHANGED <<audit_logs, audit_log, events, bus_lossy, now, api, dm, ex, wp>>

(***************************************************************************)
(* tasks/expiry.rs                                                         *)
(***************************************************************************)
PublishAll(hs, msg) ==
    events' \in {[h \in Handles |-> IF h \in lost THEN events[h]
                                   ELSE IF h \in hs THEN Append1(events[h], msg)
                                   ELSE events[h]] :
                lost \in IF bus_lossy THEN SUBSET hs ELSE {{}}}

\* no sweep has completed yet
Never == 0 - 1

\* the SELECT under a slip that drops its status condition
ExpirySelectedAnyStatus(h) == Exists(h) /\ orders[h].expires_at < now

\* ... WHERE status = 'awaiting_deposit' AND expires_at < $1
ExpirySelected(h) ==
    Exists(h) /\ orders[h].status = "AwaitingDeposit" /\ orders[h].expires_at < now

\* expire_orders: `now` is read, then SELECT order_id ... WHERE status = 'awaiting_deposit' AND expires_at < $1
ExSelect ==
    /\ ex.pc = "idle"
    /\ LET rows == {h \in Handles : ExpirySelected(h)}
       IN ex' = IF rows = {}
                THEN [pc |-> "idle", swept |-> now]
                ELSE [pc |-> "update", rows |-> rows, now |-> now, swept |-> ex.swept]
    /\ UNCHANGED <<dbVars, now, api, dm, cc, wp>>

\* the batch UPDATE under a slip that expires every row the SELECT returned
ExpiryGuardSelected(h) == h \in ex.rows

\* ... WHERE status = 'awaiting_deposit' AND expires_at < $2
ExpiryGuard(h) ==
    Exists(h) /\ orders[h].status = "AwaitingDeposit" /\ orders[h].expires_at < ex.now

\* expire_orders: the batch UPDATE, then publish_expiry for every selected id
ExUpdate ==
    /\ ex.pc = "update"
    /\ orders' = [h \in Handles |->
          IF ExpiryGuard(h)
          THEN [orders[h] EXCEPT !.status = "Expired", !.step = step("Expired")]
          ELSE orders[h]]
    /\ PublishAll(ex.rows, "expired")
    /\ ex' = [pc |-> "idle", swept |-> ex.now]
    /\ UNCHANGED <<audit_logs, audit_log, bus_lossy, db_errors, now, api, dm, cc, wp>>

(***************************************************************************)
(* tasks/withdrawal_processor.rs                                           *)
(***************************************************************************)
ProcIdle == [pc |-> "idle"]

\* process_withdrawal(state, order_id) is called
WpCall(p) ==
    \E h \in Handles :
        /\ wp[p].pc = "idle"
        /\ wp' = [wp EXCEPT ![p] = [pc |-> "start", h |-> h]]
        /\ UNCHANGED <<dbVars, now, api, dm, cc, ex>>

\* process_withdrawal: SELECT the order and require Bridging
WpStart(p) ==
    /\ wp[p].pc = "start"
    /\ wp' = [wp EXCEPT ![p] =
          IF Exists(wp[p].h) /\ orders[wp[p].h].status = "Bridging"
          THEN [pc |-> "signing", h |-> wp[p].h]
          ELSE ProcIdle]
    /\ UNCHANGED <<dbVars, now, api, dm, cc, ex>>

\* one unconditional UPDATE ... WHERE id = $n of the processor: it is applied, or fails
WpWrite(p, s, ok_pc, err_pc) ==
    LET h == wp[p].h IN
    \/ /\ DbOk
       /\ orders' = [orders EXCEPT ![h].status = s, ![h].step = step(s)]
       /\ Publish(h, s)
       /\ wp' = [wp EXCEPT ![p] = [pc |-> ok_pc, h |-> h]]
    \/ /\ DbError
       /\ wp' = [wp EXCEPT ![p] = err_pc]
       /\ UNCHANGED <<orders, events>>

\* transition_to_signing
WpSigning(p) ==
    /\ wp[p].pc = "signing"
    /\ WpWrite(p, "Signing", "sending",
               [pc |-> "fail_update", h |-> wp[p].h, reason |-> "signing failed"])
    /\ UNCHANGED <<audit_logs, audit_log, bus_lossy, now, api, dm, cc, ex>>

\* broadcast_transaction
WpSending(p) ==
    /\ wp[p].pc = "sending"
    /\ WpWrite(p, "Sending", "complete",
               [pc |-> "fail_update", h |-> wp[p].h, reason |-> "broadcast failed"])
    /\ UNCHANGED <<audit_logs, audit_log, bus_lossy, now, api, dm, cc, ex>>

\* process_withdrawal step 4: UPDATE ... SET status = 'completed', withdrawal_tx_hash
WpComplete(p) ==
    /\ wp[p].pc = "complete"
    /\ LET h == wp[p].h IN
       \/ /\ DbOk
          /\ orders' = [orders EXCEPT ![h].status = "Completed",
                                      ![h].step = step("Completed"),
                                      ![h].withdrawal_tx_hash = "withdrawal-tx"]
          /\ Publish(h, "Completed")
          /\ wp' = [wp EXCEPT ![p] = [pc |-> "audit", h |-> h,
                                      action |-> "withdrawal_completed", error |-> None]]
       \/ \* `.await?` on the UPDATE: the run ends with the error
          /\ DbError
          /\ wp' = [wp EXCEPT ![p] = ProcIdle]
          /\ UNCHANGED <<orders, events>>
    /\ UNCHANGED <<audit_logs, audit_log, bus_lossy, now, api, dm, cc, ex>>

\* fail_order: UPDATE ... SET status = 'failed', error_message; an error is only logged
WpFailUpdate(p) ==
    /\ wp[p].pc = "fail_update"
    /\ LET h == wp[p].h IN
       /\ \/ /\ DbOk
             /\ orders' = [orders EXCEPT ![h].status = "Failed", ![h].step = step("Failed"),
                                         ![h].error_message = wp[p].reason]
          \/ /\ DbError
             /\ UNCHANGED orders
       /\ Publish(h, "Failed")
       /\ wp' = [wp EXCEPT ![p] = [pc |-> "audit", h |-> h,
                                   action |-> "withdrawal_failed", error |-> wp[p].reason]]
    /\ UNCHANGED <<audit_logs, audit_log, bus_lossy, now, api, dm, cc, ex>>

\* log_audit: INSERT INTO audit_log (..., prev_hash, content_hash, ...) VALUES (..., '', '', ...)
WpLogAudit(p) ==
    /\ wp[p].pc = "audit"
    /\ \/ /\ DbOk
          /\ audit_log' = Append1(audit_log,
                [action |-> wp[p].action, entity_type |-> "bridge_order",
                 entity_id |-> wp[p].h,
                 details |-> [order_id |-> wp[p].h, error |-> wp[p].error],
                 actor |-> "system", prev_hash |-> "", content_hash |-> ""])
       \/ /\ DbError
          /\ UNCHANGED audit_log
    /\ wp' = [wp EXCEPT ![p] = ProcIdle]
    /\ UNCHANGED <<orders, audit_logs, events, bus_lossy, now, api, dm, cc, ex>>

(***************************************************************************)
(* middleware/rate_limit.rs                                                *)
(***************************************************************************)
Ips        == {"ip1", "ip2"}
Endpoints  == {"orders"}
Suffixes   == {1, 2}        \* values rand::random::<u32>() returns
default_limit       == 1    \* RateLimiter.default_limit
default_window_secs == 1    \* RateLimiter.default_window_secs
StepMs  == 500              \* the clock advances in steps of StepMs milliseconds
MaxMs   == 2000
MaxReqs == 4                \* check_rate_limit calls in one run

\* format!("rl:{ip}:{endpoint}")
rate_limit_key(ip, endpoint) == <<"rl", ip, endpoint>>
Keys == {rate_limit_key(ip, e) : ip \in Ips, e \in Endpoints}

\* the sorted set under `key`, absent once its TTL has run out
NoTtl == 0 - 1
ZLive(key) == IF zttl[key] # NoTtl /\ ms >= zttl[key] THEN {} ELSE zsets[key]

\* ZADD key score member: a member that is already there only gets the score
ZADD(set, score, member) ==
    {e \in set : e.member # member} \cup {[member |-> member, score |-> score]}

\* ZREMRANGEBYSCORE key -inf max
ZREMRANGEBYSCORE(set, max) == {e \in set : ~(e.score <= max)}

\* check_rate_limit: the MULTI/EXEC pipeline ZADD, ZREMRANGEBYSCORE, ZCARD, EXPIRE
CheckRateLimitCall(key, limit, window_secs, rnd) ==
    /\ Len(rl_reqs) < MaxReqs
    /\ LET now_         == ms
           window_start == now_ - window_secs * 1000
           member       == <<now_, rnd>>
           added        == ZADD(ZLive(key), now_, member)
           pruned       == ZREMRANGEBYSCORE(added, window_start)
           count        == Cardinality(pruned)
       IN /\ zsets' = [zsets EXCEPT ![key] = pruned]
          /\ zttl' = [zttl EXCEPT ![key] = ms + (window_secs + 1) * 1000]
          /\ rl_reqs' = Append1(rl_reqs, [key |-> key, at |-> now_, rnd |-> rnd,
                                         ret |-> "Ok", allowed |-> count <= limit])
    /\ UNCHANGED ms

\* RateLimiter::is_allowed
IsAllowed ==
    \E ip \in Ips, e \in Endpoints, rnd \in Suffixes :
        CheckRateLimitCall(rate_limit_key(ip, e), default_limit, default_window_secs, rnd)

\* the pipeline fails: `.await?` returns the error, Redis is as it was
IsAllowedErr ==
    \E ip \in Ips, e \in Endpoints :
        /\ Len(rl_reqs) < MaxReqs
        /\ rl_reqs' = Append1(rl_reqs, [key |-> rate_limit_key(ip, e), at |-> ms,
                                       rnd |-> 0, ret |-> "Err", allowed |-> FALSE])
        /\ UNCHANGED <<ms, zsets, zttl>>

\* time passes
TickMs ==
    /\ ms < MaxMs
    /\ ms' = ms + StepMs
    /\ UNCHANGED <<zsets, zttl, rl_reqs>>

LimInit ==
    /\ ms = 0
    /\ zsets = [k \in Keys |-> {}]
    /\ zttl = [k \in Keys |-> NoTtl]
    /\ rl_reqs = <<>>

(***************************************************************************)
(* services/rate_service.rs                                               *)
(***************************************************************************)
Directions  == {"XMR_TO_BTC"}
RateClients == {"r1", "r2"}
SourceOrder == <<"coingecko", "binance", "coincap">>
Sources     == {SourceOrder[i] : i \in DOMAIN SourceOrder}
\* what one upstream request gives: prices for every asset, a well-formed
\* answer without a usable price for the direction, or an error
Outcomes    == {"ok", "partial", "err"}
CacheTtlSecs   == 30        \* SET ... EX 30
RateStepMs     == 15000     \* the clock advances in steps of RateStepMs
MaxRateMs      == 45000
MaxRateCalls   == 2         \* get_rate calls in one run
MaxRedisErrors == 1         \* cache commands Redis fails in one run

NoEntry    == [rate |-> <<>>, source |-> None, exp |-> 0 - 1]
NoFetch    == 0 - 1

RedisError == redis_errors < MaxRedisErrors /\ redis_errors' = redis_errors + 1
RedisOk    == redis_errors' = redis_errors

\* GET rate:{direction}: the entry, unless its TTL has run out
CacheGet(direction) ==
    IF cache[direction] # NoEntry /\ ms < cache[direction].exp
    THEN cache[direction] ELSE NoEntry

\* history: the time of the latest live fetch for the direction so far
LatestFetch(direction) ==
    LET done == {i \in DOMAIN rate_calls : /\ rate_calls[i].direction = direction
                                           /\ rate_calls[i].fetched}
    IN IF done = {} THEN NoFetch
       ELSE rate_calls[CHOOSE i \in done :
                \A j \in done : rate_calls[j].fetch_at <= rate_calls[i].fetch_at].fetch_at

\* get_rate, up to the end of the cache lookup
GetRateCall(c, direction) ==
    /\ rs[c].pc = "idle"
    /\ Len(rate_calls) < MaxRateCalls
    /\ \E cached \in {CacheGet(direction)} \cup
                      (IF redis_errors < MaxRedisErrors THEN {NoEntry} ELSE {}) :
          /\ redis_errors' = IF cached = CacheGet(direction) THEN redis_errors
                             ELSE redis_errors + 1
          /\ LET call == [direction |-> direction, start |-> ms,
                          prior_fetch |-> LatestFetch(direction),
                          hit |-> cached # NoEntry,
                          tried |-> <<>>, fetched |-> FALSE, fetch_at |-> NoFetch,
                          rate |-> cached.rate, source |-> cached.source,
                          ret |-> IF cached # NoEntry THEN "Ok" ELSE "pending"]
             IN /\ rate_calls' = Append1(rate_calls, call)
                /\ rs' = [rs EXCEPT ![c] =
                      IF cached # NoEntry THEN [pc |-> "idle"]
                      ELSE [pc |-> "fetch", idx |-> Len(rate_calls) + 1]]
    /\ UNCHANGED <<cache, exchange_rates, rate_events, ms>>

GetRate(c) == \E direction \in Directions : GetRateCall(c, direction)

\* fetch_prices: the index in SourceOrder of the first source that answers
FirstAnswer(o) ==
    LET ans == {i \in DOMAIN SourceOrder : o[SourceOrder[i]] # "err"}
    IN IF ans = {} THEN 0 ELSE CHOOSE i \in ans : \A j \in ans : i <= j

\* let source = "coingecko".to_string();
SourceTag(first) == "coingecko"

\* get_rate on a miss: fetch_prices and the cross-rate
GetRateFetchWith(c, o) ==
    /\ rs[c].pc = "fetch"
    /\   LET i     == rs[c].idx
              first == FirstAnswer(o)
              tried == IF first = 0 THEN SourceOrder ELSE SubSeq(SourceOrder, 1, first)
          IN IF first = 0
             THEN \* Err(AppError::Internal("All price sources failed"))
                  /\ rate_calls' = [rate_calls EXCEPT ![i].tried = tried,
                                                      ![i].ret = "Internal"]
                  /\ rs' = [rs EXCEPT ![c] = [pc |-> "idle"]]
             ELSE IF o[SourceOrder[first]] = "partial"
             THEN \* Err(AppError::Internal("No USD price for ..."))
                  /\ rate_calls' = [rate_calls EXCEPT ![i].tried = tried,
                                                      ![i].ret = "Internal"]
                  /\ rs' = [rs EXCEPT ![c] = [pc |-> "idle"]]
             ELSE /\ rate_calls' = [rate_calls EXCEPT
                         ![i].tried = tried,
                         ![i].fetched = TRUE, ![i].fetch_at = ms,
                         ![i].rate = <<"cross_rate", SourceOrder[first]>>,
                         ![i].source = SourceTag(first)]
                  /\ rs' = [rs EXCEPT ![c] = [pc |-> "store", idx |-> i]]
    /\ UNCHANGED <<cache, redis_errors, exchange_rates, rate_events, ms>>

GetRateFetch(c) == \E o \in [Sources -> Outcomes] : GetRateFetchWith(c, o)

\* get_rate on a miss: SET rate:{direction} EX 30 (its error is dropped), INSERT
\* INTO exchange_rates, publish on the rates channel, return
GetRateStore(c) ==
    /\ rs[c].pc = "store"
    /\ LET i    == rs[c].idx
           call == rate_calls[i]
           row  == [direction |-> call.direction, rate |-> call.rate, source |-> call.source]
       IN /\ \/ /\ RedisOk
                /\ cache' = [cache EXCEPT ![call.direction] =
                      [rate |-> call.rate, source |-> call.source,
                       exp |-> ms + CacheTtlSecs * 1000]]
             \/ /\ RedisError
                /\ UNCHANGED cache
          /\ exchange_rates' = Append1(exchange_rates, row)
          /\ rate_events' = Append1(rate_events, row)
          /\ rate_calls' = [rate_calls EXCEPT ![i].ret = "Ok"]
          /\ rs' = [rs EXCEPT ![c] = [pc |-> "idle"]]
    /\ UNCHANGED ms

\* time passes
TickRate ==
    /\ ms < MaxRateMs
    /\ ms' = ms + RateStepMs
    /\ UNCHANGED rateVars

RateInit ==
    /\ cache = [d \in Directions |-> NoEntry]
    /\ redis_errors = 0
    /\ exchange_rates = <<>>
    /\ rate_events = <<>>
    /\ rs = [c \in RateClients |-> [pc |-> "idle"]]
    /\ rate_calls = <<>>

(***************************************************************************)
(* routes/rates.rs                                                         *)
(***************************************************************************)
\* a raw direction is the list of its words and separators
RawDirections ==
    {<<"xmr", "-", "to", "/", "btc">>, <<"XMR", "_", "TO", "_", "BTC">>,
     <<"BTC", "_", "TO", "_", "TON">>, <<"xmr", "_", "btc">>,
     <<"DOGE", "_", "TO", "_", "XMR">>}
Periods == {"1h", "2h"}

\* str::replace('-', "_").replace('/', "_")
replace_separators(word) == IF word \in {"-", "/"} THEN "_" ELSE word

RECURSIVE Concat(_)
Concat(words) == IF words = <<>> THEN "" ELSE Head(words) \o Concat(Tail(words))

valid_directions ==
    {"XMR_TO_BTC", "XMR_TO_ETH", "XMR_TO_TON", "XMR_TO_SOL", "XMR_TO_USDT",
     "XMR_TO_USDC", "BTC_TO_XMR", "ETH_TO_XMR", "TON_TO_XMR", "SOL_TO_XMR"}

\* normalize_direction: Ok(d), or Err(BadRequest)
normalize_direction(raw) ==
    LET d == Concat([i \in DOMAIN raw |-> replace_separators(to_uppercase(raw[i]))])
    IN IF d \in valid_directions THEN d ELSE "BadRequest"

valid_periods == {"1h", "4h", "24h", "7d", "30d"}
validate_period(period) == IF period \in valid_periods THEN "Ok" ELSE "BadRequest"

\* the route has answered `ret`
RouteReturned(route, ret) == [pc |-> "idle", route |-> route, ret |-> ret]

\* GET /v1/rate: normalize_direction, then rate_service::get_rate
RateRouteCall(c, raw) ==
    /\ rs[c].pc = "idle"
    /\ IF normalize_direction(raw) = "BadRequest"
       THEN /\ rs' = [rs EXCEPT ![c] = RouteReturned("rate", "BadRequest")]
            /\ UNCHANGED <<cache, redis_errors, exchange_rates, rate_events, rate_calls, ms>>
       ELSE GetRateCall(c, normalize_direction(raw))

RateRoute(c) == \E raw \in RawDirections : RateRouteCall(c, raw)

\* GET /v1/rate/history: normalize_direction, validate_period, then a SELECT
\* on exchange_rates
RateHistoryCall(c, raw, period) ==
    /\ rs[c].pc = "idle"
    /\ rs' = [rs EXCEPT ![c] =
          IF normalize_direction(raw) = "BadRequest" THEN RouteReturned("history", "BadRequest")
          ELSE IF validate_period(period) = "BadRequest" THEN RouteReturned("history", "BadRequest")
          ELSE RouteReturned("history", "Ok")]
    /\ UNCHANGED <<cache, redis_errors, exchange_rates, rate_events, rate_calls, ms>>

RateHistory(c) == \E raw \in RawDirections, period \in Periods : RateHistoryCall(c, raw, period)

\* POST /v1/order bodies over chains inside and outside the exposed pairs
DirRequests ==
    [source_chain : {"btc", "xmr", "ARB"}, dest_chain : {"TON", "XMR"},
     amount : {1}, dest_address : {TonAddr, XmrAddr}, slippage : {default_slippage}]

PostOrderDir(t) == \E req \in DirRequests : PostOrderCall(t, req)

EdgeIdle == LimInit /\ RateInit

NextRate ==
    \/ \E c \in RateClients : GetRate(c)
          /\ UNCHANGED <<coordVars, signerVars, orderVars, zsets, zttl, rl_reqs>>
    \/ \E c \in RateClients : GetRateFetch(c)
          /\ UNCHANGED <<coordVars, signerVars, orderVars, zsets, zttl, rl_reqs>>
    \/ \E c \in RateClients : GetRateStore(c)
          /\ UNCHANGED <<coordVars, signerVars, orderVars, zsets, zttl, rl_reqs>>
    \/ TickRate /\ UNCHANGED <<coordVars, signerVars, orderVars, zsets, zttl, rl_reqs>>

NextLim ==
    \/ IsAllowed /\ UNCHANGED <<coordVars, signerVars, orderVars, rateVars>>
    \/ IsAllowedErr /\ UNCHANGED <<coordVars, signerVars, orderVars, rateVars>>
    \/ TickMs /\ UNCHANGED <<coordVars, signerVars, orderVars, rateVars>>

(***************************************************************************)
(* The bridge: API calls, the three periodic drivers and the processors    *)
(***************************************************************************)
\* an empty database, no call in flight, the loops between two ticks
OrderInit(tasks, lossy) ==
    /\ orders = [h \in Handles |-> NoRow]
    /\ audit_logs = <<>>
    /\ audit_log = <<>>
    /\ events = [h \in Handles |-> <<>>]
    /\ bus_lossy = lossy
    /\ db_errors = 0
    /\ now = 0
    /\ api = [t \in tasks |-> Idle]
    /\ dm = [pc |-> "idle"]
    /\ cc = [pc |-> "idle"]
    /\ ex = [pc |-> "idle", swept |-> Never]
    /\ wp = [p \in Procs |-> ProcIdle]

\* the API calls and the three periodic drivers
Next ==
    \/ \E t \in DOMAIN api : CreateOrder(t) /\ UNCHANGED <<coordVars, signerVars, edgeVars>>
    \/ \E t \in DOMAIN api : UpdateStatus(t, Statuses) /\ UNCHANGED <<coordVars, signerVars, edgeVars>>
    \/ \E t \in DOMAIN api : CancelOrder(t) /\ UNCHANGED <<coordVars, signerVars, edgeVars>>
    \/ \E t \in DOMAIN api : AdminRefund(t) /\ UNCHANGED <<coordVars, signerVars, edgeVars>>
    \/ \E t \in DOMAIN api : UsRead(t) /\ UNCHANGED <<coordVars, signerVars, edgeVars>>
    \/ \E t \in DOMAIN api : UsUpdate(t) /\ UNCHANGED <<coordVars, signerVars, edgeVars>>
    \/ \E t \in DOMAIN api : AuditSelect(t) /\ UNCHANGED <<coordVars, signerVars, edgeVars>>
    \/ \E t \in DOMAIN api : AuditInsert(t) /\ UNCHANGED <<coordVars, signerVars, edgeVars>>
    \/ DmSelect /\ UNCHANGED <<coordVars, signerVars, edgeVars>>
    \/ DmStep /\ UNCHANGED <<coordVars, signerVars, edgeVars>>
    \/ CcSelect /\ UNCHANGED <<coordVars, signerVars, edgeVars>>
    \/ CcStep /\ UNCHANGED <<coordVars, signerVars, edgeVars>>
    \/ ExSelect /\ UNCHANGED <<coordVars, signerVars, edgeVars>>
    \/ ExUpdate /\ UNCHANGED <<coordVars, signerVars, edgeVars>>
    \/ Tick /\ UNCHANGED <<coordVars, signerVars, edgeVars>>

\* the API calls and the withdrawal processor runs
NextWp ==
    \/ \E t \in DOMAIN api : CreateOrder(t) /\ UNCHANGED <<coordVars, signerVars, edgeVars>>
    \/ \E t \in DOMAIN api : UpdateStatus(t, Statuses) /\ UNCHANGED <<coordVars, signerVars, edgeVars>>
    \/ \E t \in DOMAIN api : CancelOrder(t) /\ UNCHANGED <<coordVars, signerVars, edgeVars>>
    \/ \E t \in DOMAIN api : AdminRefund(t) /\ UNCHANGED <<coordVars, signerVars, edgeVars>>
    \/ \E t \in DOMAIN api : UsRead(t) /\ UNCHANGED <<coordVars, signerVars, edgeVars>>
    \/ \E t \in DOMAIN api : UsUpdate(t) /\ UNCHANGED <<coordVars, signerVars, edgeVars>>
    \/ \E t \in DOMAIN api : AuditSelect(t) /\ UNCHANGED <<coordVars, signerVars, edgeVars>>
    \/ \E t \in DOMAIN api : AuditInsert(t) /\ UNCHANGED <<coordVars, signerVars, edgeVars>>
    \/ \E p \in Procs : WpCall(p) /\ UNCHANGED <<coordVars, signerVars, edgeVars>>
    \/ \E p \in Procs : WpStart(p) /\ UNCHANGED <<coordVars, signerVars, edgeVars>>
    \/ \E p \in Procs : WpSigning(p) /\ UNCHANGED <<coordVars, signerVars, edgeVars>>
    \/ \E p \in Procs : WpSending(p) /\ UNCHANGED <<coordVars, signerVars, edgeVars>>
    \/ \E p \in Procs : WpComplete(p) /\ UNCHANGED <<coordVars, signerVars, edgeVars>>
    \/ \E p \in Procs : WpFailUpdate(p) /\ UNCHANGED <<coordVars, signerVars, edgeVars>>
    \/ \E p \in Procs : WpLogAudit(p) /\ UNCHANGED <<coordVars, signerVars, edgeVars>>

(***************************************************************************)
(* Specifications                                                          *)
(***************************************************************************)
CoordIdle ==
    /\ threshold = 2
    /\ active_requests = <<>>
    /\ used_request_ids = {}
    /\ coord_ret = NoCall
    /\ sessions_created = [r \in RequestIds |-> 0]
    /\ shares_accepted = [r \in RequestIds |-> [g \in SignerIds |-> 0]]

SignerIdle ==
    /\ signer_id = [i \in Signers |-> "signer-1"]
    /\ key_share = [i \in Signers |-> None]
    /\ signed_hashes = [i \in Signers |-> {}]
    /\ signer_ret = NoCall
    /\ sigs_produced = [i \in Signers |-> [t \in TxData |-> 0]]

\* the coordinator alone, under every sequence of calls
InitCoord  == CoordInit /\ SignerIdle /\ OrderInit(Tasks, FALSE) /\ EdgeIdle
SpecCoord  == InitCoord /\ [][NextCoord]_vars
\* the signers alone, under every sequence of calls
InitSigner == SignerInit /\ CoordIdle /\ OrderInit(Tasks, FALSE) /\ EdgeIdle
SpecSigner == InitSigner /\ [][NextSigner]_vars

\* the order service and the admin route alone: every call, any target status
NextApi ==
    \/ \E t \in DOMAIN api : CreateOrder(t) /\ UNCHANGED <<coordVars, signerVars, edgeVars>>
    \/ \E t \in DOMAIN api : UpdateStatus(t, Statuses) /\ UNCHANGED <<coordVars, signerVars, edgeVars>>
    \/ \E t \in DOMAIN api : CancelOrder(t) /\ UNCHANGED <<coordVars, signerVars, edgeVars>>
    \/ \E t \in DOMAIN api : AdminRefund(t) /\ UNCHANGED <<coordVars, signerVars, edgeVars>>
    \/ \E t \in DOMAIN api : UsRead(t) /\ UNCHANGED <<coordVars, signerVars, edgeVars>>
    \/ \E t \in DOMAIN api : UsUpdate(t) /\ UNCHANGED <<coordVars, signerVars, edgeVars>>
    \/ \E t \in DOMAIN api : AuditSelect(t) /\ UNCHANGED <<coordVars, signerVars, edgeVars>>
    \/ \E t \in DOMAIN api : AuditInsert(t) /\ UNCHANGED <<coordVars, signerVars, edgeVars>>

InitApi == OrderInit({"t1"}, FALSE) /\ CoordIdle /\ SignerIdle /\ EdgeIdle
SpecApi == InitApi /\ [][NextApi]_vars

\* POST /v1/order with every request body, and the calls that fail or cancel
\* the created order
NextPost ==
    \/ \E t \in DOMAIN api : PostOrder(t) /\ UNCHANGED <<coordVars, signerVars, edgeVars>>
    \/ \E t \in DOMAIN api : UpdateStatus(t, {"AwaitingDeposit", "Failed"})
                                  /\ UNCHANGED <<coordVars, signerVars, edgeVars>>
    \/ \E t \in DOMAIN api : CancelOrder(t) /\ UNCHANGED <<coordVars, signerVars, edgeVars>>
    \/ \E t \in DOMAIN api : UsRead(t) /\ UNCHANGED <<coordVars, signerVars, edgeVars>>
    \/ \E t \in DOMAIN api : UsUpdate(t) /\ UNCHANGED <<coordVars, signerVars, edgeVars>>
    \/ \E t \in DOMAIN api : AuditSelect(t) /\ UNCHANGED <<coordVars, signerVars, edgeVars>>
    \/ \E t \in DOMAIN api : AuditInsert(t) /\ UNCHANGED <<coordVars, signerVars, edgeVars>>

InitPost == OrderInit({"t1"}, FALSE) /\ CoordIdle /\ SignerIdle /\ EdgeIdle
SpecPost == InitPost /\ [][NextPost]_vars

\* the rate limiter alone, under every sequence of calls and clock steps
InitLim == EdgeIdle /\ CoordIdle /\ SignerIdle /\ OrderInit({"t1"}, FALSE)
SpecLim == InitLim /\ [][NextLim]_vars

\* the rate service alone: two concurrent callers, the upstream sources and
\* the cache under every outcome
InitRate == EdgeIdle /\ CoordIdle /\ SignerIdle /\ OrderInit({"t1"}, FALSE)
SpecRate == InitRate /\ [][NextRate]_vars

\* the order service and the admin route over an event bus that can lose a
\* PUBLISH and a database that can fail a statement
InitFail == OrderInit({"t1"}, TRUE) /\ CoordIdle /\ SignerIdle /\ EdgeIdle
SpecFail == InitFail /\ [][NextApi]_vars

\* two API clients whose calls, and so whose audit appends, interleave
NextAudit ==
    \/ \E t \in DOMAIN api : CreateOrder(t) /\ UNCHANGED <<coordVars, signerVars, edgeVars>>
    \/ \E t \in DOMAIN api : UpdateStatus(t, {"AwaitingDeposit", "Failed"})
                                  /\ UNCHANGED <<coordVars, signerVars, edgeVars>>
    \/ \E t \in DOMAIN api : UsUpdate(t) /\ UNCHANGED <<coordVars, signerVars, edgeVars>>
    \/ \E t \in DOMAIN api : AuditSelect(t) /\ UNCHANGED <<coordVars, signerVars, edgeVars>>
    \/ \E t \in DOMAIN api : AuditInsert(t) /\ UNCHANGED <<coordVars, signerVars, edgeVars>>

InitAudit == OrderInit(Tasks, FALSE) /\ CoordIdle /\ SignerIdle /\ EdgeIdle
SpecAudit == InitAudit /\ [][NextAudit]_vars

\* order creation alone, over the inputs of the conversion
NextConv ==
    \/ \E t \in DOMAIN api : CreateOrderConv(t) /\ UNCHANGED <<coordVars, signerVars, edgeVars>>
    \/ \E t \in DOMAIN api : AuditSelect(t) /\ UNCHANGED <<coordVars, signerVars, edgeVars>>
    \/ \E t \in DOMAIN api : AuditInsert(t) /\ UNCHANGED <<coordVars, signerVars, edgeVars>>

InitConv == OrderInit({"t1"}, FALSE) /\ CoordIdle /\ SignerIdle /\ EdgeIdle
SpecConv == InitConv /\ [][NextConv]_vars

\* the three routes that take a direction: the rate query, the rate history
\* query and the order creation
NextDir ==
    \/ \E c \in RateClients : RateRoute(c)
          /\ UNCHANGED <<coordVars, signerVars, orderVars, zsets, zttl, rl_reqs>>
    \/ \E c \in RateClients : RateHistory(c)
          /\ UNCHANGED <<coordVars, signerVars, orderVars, zsets, zttl, rl_reqs>>
    \/ \E c \in RateClients : GetRateFetch(c)
          /\ UNCHANGED <<coordVars, signerVars, orderVars, zsets, zttl, rl_reqs>>
    \/ \E c \in RateClients : GetRateStore(c)
          /\ UNCHANGED <<coordVars, signerVars, orderVars, zsets, zttl, rl_reqs>>
    \/ \E t \in DOMAIN api : PostOrderDir(t) /\ UNCHANGED <<coordVars, signerVars, edgeVars>>
    \/ \E t \in DOMAIN api : AuditSelect(t) /\ UNCHANGED <<coordVars, signerVars, edgeVars>>
    \/ \E t \in DOMAIN api : AuditInsert(t) /\ UNCHANGED <<coordVars, signerVars, edgeVars>>

InitDir == OrderInit({"t1"}, FALSE) /\ CoordIdle /\ SignerIdle /\ EdgeIdle
SpecDir == InitDir /\ [][NextDir]_vars

\* the order store, one API client and the periodic drivers, under every interleaving
Init == OrderInit({"t1"}, FALSE) /\ CoordIdle /\ SignerIdle /\ EdgeIdle
Spec == Init /\ [][Next]_vars

\* the tokio runtime polls every spawned task that can make progress: a call
\* in flight runs to its end, the driver loops keep ticking and the clock
\* advances; no client is obliged to make a call
Clients == {"t1"}
MpcIdle == UNCHANGED <<coordVars, signerVars, edgeVars>>
Fairness ==
    /\ \A t \in Clients : /\ WF_vars(UsRead(t) /\ MpcIdle)
                           /\ WF_vars(UsUpdate(t) /\ MpcIdle)
                           /\ WF_vars(AuditSelect(t) /\ MpcIdle)
                           /\ WF_vars(AuditInsert(t) /\ MpcIdle)
    /\ WF_vars(DmSelect /\ MpcIdle) /\ WF_vars(DmStep /\ MpcIdle)
    /\ WF_vars(CcSelect /\ MpcIdle) /\ WF_vars(CcStep /\ MpcIdle)
    /\ WF_vars(ExSelect /\ MpcIdle) /\ WF_vars(ExUpdate /\ MpcIdle)
    /\ WF_vars(Tick /\ MpcIdle)

\* Spec with the scheduling of the runtime
InitLive == OrderInit(Clients, FALSE) /\ CoordIdle /\ SignerIdle /\ EdgeIdle
SpecLive == InitLive /\ [][Next]_vars /\ Fairness

\* the order store, one API client and the processor runs, under every interleaving
InitWp == OrderInit({"t1"}, FALSE) /\ CoordIdle /\ SignerIdle /\ EdgeIdle
SpecWp == InitWp /\ [][NextWp]_vars

\* the process stops while an order is in Bridging, Signing or Sending and is
\* started again: every spawned task and every call in flight is gone, the
\* tables stay, and spawn_all starts the three loops
Restart ==
    /\ \E h \in Handles :
          Exists(h) /\ orders[h].status \in {"Bridging", "Signing", "Sending"}
    /\ wp' = [p \in Procs |-> ProcIdle]
    /\ api' = [t \in DOMAIN api |-> Idle]
    /\ dm' = [pc |-> "idle"]
    /\ cc' = [pc |-> "idle"]
    /\ ex' = [pc |-> "idle", swept |-> ex.swept]
    /\ UNCHANGED <<dbVars, now>>

\* the processor runs that are followed where one run is enough
FollowedProcs == {"p1"}

\* the calls that bring an order to Bridging, the confirmation checker, the
\* processor runs and the restarts of the process
NextRestart ==
    \/ \E t \in DOMAIN api : CreateOrder(t) /\ UNCHANGED <<coordVars, signerVars, edgeVars>>
    \/ \E t \in DOMAIN api :
          UpdateStatus(t, {"AwaitingDeposit", "DepositDetected", "Confirming", "Bridging"})
             /\ UNCHANGED <<coordVars, signerVars, edgeVars>>
    \/ \E t \in DOMAIN api : UsUpdate(t) /\ UNCHANGED <<coordVars, signerVars, edgeVars>>
    \/ \E t \in DOMAIN api : AuditSelect(t) /\ UNCHANGED <<coordVars, signerVars, edgeVars>>
    \/ \E t \in DOMAIN api : AuditInsert(t) /\ UNCHANGED <<coordVars, signerVars, edgeVars>>
    \/ CcSelect /\ UNCHANGED <<coordVars, signerVars, edgeVars>>
    \/ CcStep /\ UNCHANGED <<coordVars, signerVars, edgeVars>>
    \/ \E p \in FollowedProcs : WpCall(p) /\ UNCHANGED <<coordVars, signerVars, edgeVars>>
    \/ \E p \in FollowedProcs : WpStart(p) /\ UNCHANGED <<coordVars, signerVars, edgeVars>>
    \/ \E p \in FollowedProcs : WpSigning(p) /\ UNCHANGED <<coordVars, signerVars, edgeVars>>
    \/ \E p \in FollowedProcs : WpSending(p) /\ UNCHANGED <<coordVars, signerVars, edgeVars>>
    \/ \E p \in FollowedProcs : WpComplete(p) /\ UNCHANGED <<coordVars, signerVars, edgeVars>>
    \/ \E p \in FollowedProcs : WpFailUpdate(p) /\ UNCHANGED <<coordVars, signerVars, edgeVars>>
    \/ \E p \in FollowedProcs : WpLogAudit(p) /\ UNCHANGED <<coordVars, signerVars, edgeVars>>
    \/ Restart /\ UNCHANGED <<coordVars, signerVars, edgeVars>>

\* the runtime polls every task that can make progress: a call in flight, the
\* checker loop and a processor run go on to their end; nothing obliges a
\* client to call, the process to restart or anyone to invoke a processor
FairnessRestart ==
    /\ \A t \in Clients : /\ WF_vars(UsUpdate(t) /\ MpcIdle)
                           /\ WF_vars(AuditSelect(t) /\ MpcIdle)
                           /\ WF_vars(AuditInsert(t) /\ MpcIdle)
    /\ WF_vars(CcSelect /\ MpcIdle) /\ WF_vars(CcStep /\ MpcIdle)
    /\ \A p \in FollowedProcs : /\ WF_vars(WpStart(p) /\ MpcIdle)
                         /\ WF_vars(WpSigning(p) /\ MpcIdle)
                         /\ WF_vars(WpSending(p) /\ MpcIdle)
                         /\ WF_vars(WpComplete(p) /\ MpcIdle)
                         /\ WF_vars(WpFailUpdate(p) /\ MpcIdle)
                         /\ WF_vars(WpLogAudit(p) /\ MpcIdle)

InitRestart == OrderInit(Clients, FALSE) /\ CoordIdle /\ SignerIdle /\ EdgeIdle
SpecRestart == InitRestart /\ [][NextRestart]_vars /\ FairnessRestart

\* the calls that bring an order forward, the deposit monitor and the
\* confirmation checker with the database errors of their ticks, and the
\* processor runs
NextTickErr ==
    \/ \E t \in DOMAIN api : CreateOrder(t) /\ UNCHANGED <<coordVars, signerVars, edgeVars>>
    \/ \E t \in DOMAIN api :
          UpdateStatus(t, {"AwaitingDeposit", "DepositDetected", "Confirming", "Bridging"})
             /\ UNCHANGED <<coordVars, signerVars, edgeVars>>
    \/ \E t \in DOMAIN api : UsUpdate(t) /\ UNCHANGED <<coordVars, signerVars, edgeVars>>
    \/ \E t \in DOMAIN api : AuditSelect(t) /\ UNCHANGED <<coordVars, signerVars, edgeVars>>
    \/ \E t \in DOMAIN api : AuditInsert(t) /\ UNCHANGED <<coordVars, signerVars, edgeVars>>
    \/ DmSelect /\ UNCHANGED <<coordVars, signerVars, edgeVars>>
    \/ DmStep /\ UNCHANGED <<coordVars, signerVars, edgeVars>>
    \/ DmSelectErr /\ UNCHANGED <<coordVars, signerVars, edgeVars>>
    \/ CcSelect /\ UNCHANGED <<coordVars, signerVars, edgeVars>>
    \/ CcStep /\ UNCHANGED <<coordVars, signerVars, edgeVars>>
    \/ CcStepErr /\ UNCHANGED <<coordVars, signerVars, edgeVars>>
    \/ \E p \in FollowedProcs : WpCall(p) /\ UNCHANGED <<coordVars, signerVars, edgeVars>>
    \/ \E p \in FollowedProcs : WpStart(p) /\ UNCHANGED <<coordVars, signerVars, edgeVars>>
    \/ \E p \in FollowedProcs : WpSigning(p) /\ UNCHANGED <<coordVars, signerVars, edgeVars>>
    \/ \E p \in FollowedProcs : WpSending(p) /\ UNCHANGED <<coordVars, signerVars, edgeVars>>
    \/ \E p \in FollowedProcs : WpComplete(p) /\ UNCHANGED <<coordVars, signerVars, edgeVars>>
    \/ \E p \in FollowedProcs : WpFailUpdate(p) /\ UNCHANGED <<coordVars, signerVars, edgeVars>>
    \/ \E p \in FollowedProcs : WpLogAudit(p) /\ UNCHANGED <<coordVars, signerVars, edgeVars>>

InitTickErr == OrderInit({"t1"}, FALSE) /\ CoordIdle /\ SignerIdle /\ EdgeIdle
SpecTickErr == InitTickErr /\ [][NextTickErr]_vars

\* order creation alone, over the prices the sources may report
NextQuote ==
    \/ \E t \in DOMAIN api : CreateOrderQuoted(t) /\ UNCHANGED <<coordVars, signerVars, edgeVars>>
    \/ \E t \in DOMAIN api : AuditSelect(t) /\ UNCHANGED <<coordVars, signerVars, edgeVars>>
    \/ \E t \in DOMAIN api : AuditInsert(t) /\ UNCHANGED <<coordVars, signerVars, edgeVars>>

InitQuote == OrderInit({"t1"}, FALSE) /\ CoordIdle /\ SignerIdle /\ EdgeIdle
SpecQuote == InitQuote /\ [][NextQuote]_vars

(***************************************************************************)
(* Claims about the coordinator (SpecCoord)                                *)
(***************************************************************************)

\* C4: request_signing fails for a request_id that any earlier request_signing
\* call used, whatever the status of that session now is, and the rejected call
\* leaves the sessions unchanged; no request_id ever names two sessions.
C4_NoRequestIdReuse ==
    /\ [](\A r \in RequestIds : sessions_created[r] <= 1)
    /\ [][\A r \in RequestIds :
            (/\ coord_ret'.op = "request_signing"
             /\ coord_ret'.rid = r
             /\ sessions_created[r] > 0)
            => (/\ coord_ret'.res = "Err"
                /\ active_requests' = active_requests
                /\ used_request_ids' = used_request_ids)]_vars

\* C4 witness: a request_signing was rejected for a request_id whose session
\* is already over (Complete)
C4_Witness ==
    /\ coord_ret.op = "request_signing"
    /\ coord_ret.res = "Err"
    /\ coord_ret.rid \in DOMAIN active_requests
    /\ active_requests[coord_ret.rid].status = "Complete"

\* C5: a Complete session holds at least threshold shares, each accepted from
\* a different signer id; an accepted submit_share returns the aggregate
\* exactly when it brings the number of stored shares to the threshold and
\* returns None before that.
C5_CompleteHasThreshold ==
    /\ [](\A r \in DOMAIN active_requests :
            /\ \A g \in SignerIds : shares_accepted[r][g] <= 1
            /\ active_requests[r].status = "Complete"
                 => /\ Cardinality(DOMAIN active_requests[r].shares) >= threshold
                    /\ Cardinality({g \in SignerIds : shares_accepted[r][g] = 1}) >= threshold)
    /\ [][(coord_ret'.op = "submit_share" /\ coord_ret'.res # "Err")
            => LET n == Cardinality(DOMAIN active_requests'[coord_ret'.rid].shares) IN
               /\ n = Cardinality(DOMAIN active_requests[coord_ret'.rid].shares) + 1
               /\ (coord_ret'.res = "Some") <=> (n = threshold)
               /\ (coord_ret'.res = "NoneYet") <=> (n < threshold)
               /\ (coord_ret'.res = "Some")
                    => /\ active_requests'[coord_ret'.rid].status = "Complete"
                       /\ coord_ret'.sig = combine_shares(active_requests'[coord_ret'.rid])]_vars

\* C5 witness: the call that stored the second of two required shares returned
\* the aggregate and the session is Complete
C5_Witness ==
    /\ threshold = 2
    /\ coord_ret.op = "submit_share"
    /\ coord_ret.res = "Some"
    /\ active_requests[coord_ret.rid].status = "Complete"
    /\ Cardinality(DOMAIN active_requests[coord_ret.rid].shares) = 2

\* C6: submit_share fails when there is no session for request_id, when the
\* session is not Pending, or when the signer id already has a share in it,
\* and a failed call leaves every session's share map and status unchanged.
C6_SubmitShareRejections ==
    [][coord_ret'.op = "submit_share"
         => LET r == coord_ret'.rid
                g == coord_ret'.signer
            IN /\ (\/ r \notin DOMAIN active_requests
                   \/ active_requests[r].status \in {"Complete", "Failed"}
                   \/ g \in DOMAIN active_requests[r].shares)
                     => coord_ret'.res = "Err"
               /\ coord_ret'.res = "Err" => active_requests' = active_requests]_vars

\* C6 witness: a share was rejected for a session that fail_session had failed
C6_Witness ==
    /\ coord_ret.op = "submit_share"
    /\ coord_ret.res = "Err"
    /\ coord_ret.rid \in DOMAIN active_requests
    /\ active_requests[coord_ret.rid].status = "Failed"
    /\ coord_ret.signer \notin DOMAIN active_requests[coord_ret.rid].shares

(***************************************************************************)
(* Claims about the signer (SpecSigner)                                    *)
(***************************************************************************)

\* C7: sign fails when no key share is loaded or when this signer already
\* signed the same tx_bytes, so a signer returns at most one partial signature
\* per tx_bytes, whatever set_key_share calls come between; a tx_bytes it has
\* not signed yet is signed.
C7_SignOncePerTx ==
    /\ [](\A i \in Signers, t \in TxData : sigs_produced[i][t] <= 1)
    /\ [][signer_ret'.op = "sign"
            => LET i == signer_ret'.signer
                   t == signer_ret'.tx
               IN IF key_share[i] = None \/ sigs_produced[i][t] > 0
                  THEN /\ signer_ret'.res = "Err"
                       /\ sigs_produced' = sigs_produced
                  ELSE /\ signer_ret'.res = "Ok"
                       /\ sigs_produced'[i][t] = 1]_vars

\* C7 witness: a signer that signed both transactions, got a new key share
\* and was then refused a second signature of one of them
C7_Witness ==
    /\ signer_ret.op = "sign"
    /\ signer_ret.res = "Err"
    /\ signer_ret.why = "replay"
    /\ \A t \in TxData : sigs_produced[signer_ret.signer][t] = 1

\* C23: partial signatures are deterministic: when a signer signs the tx_data
\* that another signer with the same key share and the same signer id has just
\* signed, it returns the same share, whatever each of them has signed before.
C23_DeterministicPartialSig ==
    [][(/\ signer_ret.op = "sign" /\ signer_ret.res = "Ok"
        /\ signer_ret'.op = "sign" /\ signer_ret'.res = "Ok"
        /\ signer_ret'.signer # signer_ret.signer
        /\ signer_ret'.tx = signer_ret.tx
        /\ key_share[signer_ret'.signer] = key_share[signer_ret.signer]
        /\ signer_id[signer_ret'.signer] = signer_id[signer_ret.signer])
            => signer_ret'.sig = signer_ret.sig]_vars

\* C23 witness: two signers with the same key share and id have each signed
\* the same tx_data, the second one right after the first, and the first one
\* had signed another tx_data before that the second one never signed
C23_Witness ==
    /\ signer_ret.op = "sign" /\ signer_ret.res = "Ok"
    /\ \E i \in Signers \ {signer_ret.signer} :
          /\ key_share[i] = key_share[signer_ret.signer]
          /\ signer_id[i] = signer_id[signer_ret.signer]
          /\ sigs_produced[i][signer_ret.tx] = 1
          /\ signer_ret.sig = PartialSig(key_share[i], signer_id[i], signer_ret.tx)
          /\ \E t \in TxData \ {signer_ret.tx} :
                sigs_produced[i][t] = 1 /\ sigs_produced[signer_ret.signer][t] = 0

(***************************************************************************)
(* Claims about the order lifecycle (Spec, SpecApi)                        *)
(***************************************************************************)

\* the transition table as the specification states it
LegalSuccessors(s) ==
    CASE s = "Created"         -> {"AwaitingDeposit", "Expired", "Failed"}
      [] s = "AwaitingDeposit" -> {"DepositDetected", "Expired", "Failed"}
      [] s = "DepositDetected" -> {"Confirming", "Failed"}
      [] s = "Confirming"      -> {"Bridging", "Failed"}
      [] s = "Bridging"        -> {"Signing", "Failed"}
      [] s = "Signing"         -> {"Sending", "Failed"}
      [] s = "Sending"         -> {"Completed", "Failed"}
      [] s = "Failed"          -> {"Refunding"}
      [] s = "Refunding"       -> {"Refunded", "Failed"}
      [] OTHER                 -> {}

\* the order row, the audit tables and the event channels are as they were
StoreUnchanged == UNCHANGED <<orders, audit_logs, audit_log, events>>

\* C1: under any interleaving of the API operations and the drivers, every
\* change of an order's status goes from a status to one of its legal
\* successors in the transition table.
C1_EveryChangeIsLegal ==
    [][\A h \in Handles :
          (Exists(h) /\ orders'[h].status # orders[h].status)
              => orders'[h].status \in LegalSuccessors(orders[h].status)]_vars

C2_TerminalIsFinal ==
    [][\A h \in Handles :
          (Exists(h) /\ orders[h].status \in {"Completed", "Refunded", "Expired"})
              => orders'[h].status = orders[h].status]_vars

\* C3: a run of the withdrawal processor that found its order in Bridging ends
\* with the order Completed and withdrawal_tx_hash stored, or Failed and the
\* error stored in error_message; it never ends with the order left in
\* Signing or Sending.
C3_RunEndsCompletedOrFailed ==
    [][\A p \in Procs :
          (wp[p].pc \notin {"idle", "start"} /\ wp'[p].pc = "idle")
              => LET o == orders'[wp[p].h]
                 IN \/ o.status = "Completed" /\ o.withdrawal_tx_hash # None
                    \/ o.status = "Failed" /\ o.error_message # None]_vars

\* the entries of one audit table form a hash chain from the genesis value
Chained(log) ==
    \A i \in DOMAIN log :
        /\ log[i].prev_hash = IF i = 1 THEN ZeroHash ELSE log[i - 1].content_hash
        /\ log[i].content_hash =
              Sha256(<<log[i].action, log[i].entity_type, log[i].entity_id,
                       Json(log[i].details), log[i].actor, log[i].prev_hash>>)

\* C8: after sequential appends the first audit entry has prev_hash of 64
\* zeros, every later entry's prev_hash is the content_hash of the entry
\* inserted before it, and every entry's content_hash is the hash of its own
\* fields; this holds for the entries of every component that writes one.
C8_EveryAuditEntryChained == Chained(audit_logs) /\ Chained(audit_log)

\* C9: update_status(h, s) returns NotFound when no order has the handle h and
\* Conflict when s is not a legal successor of the order's status; the call
\* has then returned, and the order row, the audit tables and the event
\* channel are as they were.
C9_UpdateStatusRejects ==
    [][\A t \in DOMAIN api, h \in Handles, s \in Statuses :
          UpdateStatusCall(t, h, s) =>
              /\ ~Exists(h) =>
                    api'[t] = Returned("update_status", "NotFound") /\ StoreUnchanged
              /\ (Exists(h) /\ s \notin LegalSuccessors(orders[h].status)) =>
                    api'[t] = Returned("update_status", "Conflict") /\ StoreUnchanged]_vars

\* update_status(h, s) has returned Conflict for an order that is still Created
C9_Witness ==
    \E t \in DOMAIN api, h \in Handles :
        /\ api[t] = Returned("update_status", "Conflict")
        /\ Exists(h)
        /\ orders[h].status = "Created"
        /\ Len(audit_logs) = 1
        /\ events[h] = <<"created">>

\* C10: cancel(h) on an order in a status other than AwaitingDeposit returns
\* Conflict and leaves the order, the audit tables and the event channel as
\* they were; a cancel writes, and returns Ok, only for an order it read as
\* AwaitingDeposit, and what it writes is the status Expired.
C10_CancelOnlyFromAwaitingDeposit ==
    [][\A t \in DOMAIN api :
          /\ \A h \in Handles :
                (CancelCall(t, h) /\ Exists(h) /\ orders[h].status # "AwaitingDeposit")
                    => api'[t] = Returned("cancel", "Conflict") /\ StoreUnchanged
          /\ (UsUpdate(t) /\ api[t].op = "cancel")
                => /\ api[t].cur = "AwaitingDeposit"
                   /\ orders' = [orders EXCEPT ![api[t].h].status = "Expired",
                                               ![api[t].h].step = step("Expired")]
          /\ (AuditInsert(t) /\ api'[t] = Returned("cancel", "Ok"))
                => api[t].entry.details = [from |-> "AwaitingDeposit", to |-> "Expired"]]_vars

\* a cancel has returned Ok and its order is Expired
C10_Witness ==
    \E t \in DOMAIN api, h \in Handles :
        /\ api[t] = Returned("cancel", "Ok")
        /\ orders[h].status = "Expired"
        /\ audit_logs[Len(audit_logs)].details = [from |-> "AwaitingDeposit", to |-> "Expired"]

\* C13: admin refund without a valid bearer token returns Unauthorized, and on
\* an order in a status other than Failed it returns Conflict, both leaving
\* the order, the audit tables and the event channel as they were; on a
\* Failed order it goes on to update_status, and the status a refund writes is
\* Refunding over Failed.
C13_RefundOnlyFromFailed ==
    [][\A t \in DOMAIN api :
          /\ \A h \in Handles :
                /\ RefundCall(t, h, FALSE)
                      => api'[t] = Returned("refund", "Unauthorized") /\ StoreUnchanged
                /\ (RefundCall(t, h, TRUE) /\ Exists(h) /\ orders[h].status # "Failed")
                      => api'[t] = Returned("refund", "Conflict") /\ StoreUnchanged
                /\ (RefundCall(t, h, TRUE) /\ Exists(h) /\ orders[h].status = "Failed")
                      => api'[t].pc = "us_read" /\ api'[t].new_status = "Refunding"
          /\ (UsRead(t) /\ api[t].op = "refund")
                => api'[t].pc = "us_update"
          /\ (UsUpdate(t) /\ api[t].op = "refund")
                => /\ orders[api[t].h].status = "Failed"
                   /\ orders' = [orders EXCEPT ![api[t].h].status = "Refunding",
                                               ![api[t].h].step = step("Refunding")]]_vars

\* an admin refund has returned Ok and its order is Refunding
C13_Witness ==
    \E t \in DOMAIN api, h \in Handles :
        /\ api[t] = Returned("refund", "Ok")
        /\ orders[h].status = "Refunding"
        /\ audit_logs[Len(audit_logs)].action = "admin_refund_initiated"

\* what the claim lists as grounds for rejecting a creation request
C14_Rejected(req) ==
    \/ req.slippage < 10 \/ req.slippage > 500
    \/ to_uppercase(req.source_chain) = to_uppercase(req.dest_chain)
    \/ to_uppercase(req.source_chain) \notin SUPPORTED_CHAINS
    \/ to_uppercase(req.dest_chain) \notin SUPPORTED_CHAINS
    \/ req.amount <= 0

\* C14: a creation request with slippage below 0.1 or above 5.0, equal source
\* and destination chain, an unsupported chain or amount <= 0 returns
\* BadRequest and leaves the order rows, the audit tables and the event
\* channels as they were; a request with slippage exactly 0.1 or exactly 5.0
\* and nothing else wrong is not rejected, and the order it creates carries
\* that slippage.
C14_InvalidCreationRejected ==
    [][\A t \in DOMAIN api :
        (api[t].pc = "idle" /\ api'[t] # api[t] /\ api'[t].op = "create") =>
        \A req \in Requests :
          PostOrderCall(t, req) =>
              /\ C14_Rejected(req)
                    => api'[t] = Returned("create", "BadRequest") /\ StoreUnchanged
              /\ (/\ req.slippage \in {10, 500}
                  /\ req.amount > 0
                  /\ req.source_chain = "ton" /\ req.dest_chain = "XMR"
                  /\ req.dest_address = XmrAddr)
                    => /\ api'[t].ret # "BadRequest"
                       /\ \A h \in Handles :
                             (~Exists(h) /\ orders'[h] # NoRow)
                                 => orders'[h].slippage = req.slippage]_vars

\* an order with slippage exactly 0.1 exists, and a later creation request
\* has been rejected
C14_Witness ==
    \E t \in DOMAIN api, h \in Handles :
        /\ api[t] = Returned("create", "BadRequest")
        /\ Exists(h)
        /\ orders[h].slippage = 10
        /\ Len(audit_logs) = 1
        /\ events[h] = <<"created">>

\* the step the claim gives for each status
C15_StepOf ==
    [s \in Statuses |->
        CASE s = "Created" -> 0         [] s = "AwaitingDeposit" -> 1
          [] s = "DepositDetected" -> 2 [] s = "Confirming" -> 3
          [] s = "Bridging" -> 4        [] s = "Signing" -> 5
          [] s = "Sending" -> 6         [] s = "Completed" -> 7
          [] s = "Failed" -> 0 - 1      [] s = "Refunding" -> 0 - 2
          [] s = "Refunded" -> 0 - 3    [] s = "Expired" -> 0 - 4]

\* C15: in every reachable state the stored step of every order is the step
\* the table gives for its stored status.
C15_StepMatchesStatus ==
    \A h \in Handles :
        Exists(h) => /\ orders[h].status \in Statuses
                     /\ orders[h].step = C15_StepOf[orders[h].status]

\* the sweep has expired an order that update_status had moved to
\* AwaitingDeposit, and the row carries step -4
C15_Witness ==
    \E h \in Handles :
        /\ Exists(h)
        /\ orders[h].status = "Expired"
        /\ orders[h].step = 0 - 4
        /\ ex.pc = "idle" /\ ex.swept > orders[h].expires_at
        /\ events[h] = <<"created", "AwaitingDeposit", "expired">>

C17_ExpiresAfterCreation ==
    \A h \in Handles :
        Exists(h) => orders[h].expires_at > orders[h].created_at

\* the calls up to the i-th that reached Redis for the key of the i-th and
\* carry a timestamp inside the window that ends at the i-th
C18_InWindow(i) ==
    {j \in 1..i : /\ rl_reqs[j].key = rl_reqs[i].key
                  /\ rl_reqs[j].ret = "Ok"
                  /\ rl_reqs[j].at > rl_reqs[i].at - default_window_secs * 1000}

\* C18: a request is allowed exactly when, counting itself, at most `limit`
\* requests of its key have a timestamp inside the window ending at it, and
\* at most `limit` requests of one key are allowed within one window.
C18_AllowedWithinLimit ==
    \A i \in DOMAIN rl_reqs :
        rl_reqs[i].ret = "Ok" =>
            /\ rl_reqs[i].allowed <=> (Cardinality(C18_InWindow(i)) <= default_limit)
            /\ Cardinality({j \in C18_InWindow(i) : rl_reqs[j].allowed}) <= default_limit

\* C19: a get_rate that starts less than 30 s after a live fetch for its
\* direction is served from the cache and asks no upstream source; one that
\* starts more than 30 s after the latest live fetch is not served from the
\* cache and, once past its fetch, has asked an upstream source.
C19_CacheServesWithinTtl ==
    \A i \in DOMAIN rate_calls :
        LET call == rate_calls[i]
        IN call.prior_fetch # NoFetch =>
              /\ call.start - call.prior_fetch < CacheTtlSecs * 1000
                    => call.hit /\ call.tried = <<>>
              /\ call.start - call.prior_fetch > CacheTtlSecs * 1000
                    => /\ ~call.hit
                       /\ call.ret # "pending" => call.tried # <<>>

\* C20: on a miss the sources are asked in the order primary aggregator,
\* exchange ticker, secondary aggregator up to the first that answers; the
\* rate comes from that source's prices and the source tag names it; the call
\* fails with UpstreamUnavailable exactly when all three sources fail.
C20_FirstSuccessWinsAndTags ==
    [][\A c \in RateClients, o \in [Sources -> Outcomes] :
          GetRateFetchWith(c, o) =>
              LET call  == rate_calls'[rs[c].idx]
                  first == FirstAnswer(o)
              IN /\ call.ret = "UpstreamUnavailable" <=> first = 0
                 /\ first # 0 => call.tried = SubSeq(SourceOrder, 1, first)
                 /\ (first # 0 /\ o[SourceOrder[first]] = "ok")
                       => /\ call.ret \in {"pending", "Ok"}
                          /\ call.rate = <<"cross_rate", SourceOrder[first]>>
                          /\ call.source = SourceOrder[first]]_vars

(***************************************************************************)
(* Claims about the exposed directions (SpecDir)                           *)
(***************************************************************************)

\* C21: a rate query, a rate-history query or an order creation for a
\* direction outside the ten exposed pairs is answered BadRequest and writes
\* nothing: no order row, no audit row, no cache entry, no rate row.
C21_OnlyTenDirections ==
    [][/\ \A c \in RateClients, raw \in RawDirections :
            (normalize_direction(raw) = "BadRequest" /\ RateRouteCall(c, raw))
                => /\ rs'[c] = RouteReturned("rate", "BadRequest")
                   /\ UNCHANGED <<cache, exchange_rates, rate_events, rate_calls>>
       /\ \A c \in RateClients, raw \in RawDirections, period \in Periods :
            (normalize_direction(raw) = "BadRequest" /\ RateHistoryCall(c, raw, period))
                => /\ rs'[c] = RouteReturned("history", "BadRequest")
                   /\ UNCHANGED <<cache, exchange_rates, rate_events, rate_calls>>
       /\ \A t \in DOMAIN api, req \in DirRequests :
            (direction_of(req) \notin valid_directions /\ PostOrderCall(t, req))
                => /\ api'[t] = Returned("create", "BadRequest")
                   /\ UNCHANGED <<orders, audit_logs, events>>]_vars

\* C24: for the status of every stored order, is_terminal is true exactly when
\* the status is Completed, Refunded or Expired, and exactly when the
\* transition table gives the status no successor.
C24_TerminalIsExactlyThree ==
    \A h \in Handles : Exists(h) =>
        LET s == orders[h].status
        IN /\ is_terminal(s) <=> s \in {"Completed", "Refunded", "Expired"}
           /\ is_terminal(s) <=> valid_transitions(s) = {}

\* C25: a status-changing write is gated on the status its writer read: when
\* the status of the order has changed between the read and the write of an
\* API operation, of the confirmation checker, of the deposit monitor or of
\* the expiry sweeper, the write leaves the order as it is.
C25_WritesGatedOnReadStatus ==
    [][/\ \A t \in DOMAIN api :
            (/\ api[t].pc = "us_update" /\ api'[t].pc # "us_update"
             /\ orders[api[t].h].status # api[t].cur)
                => orders' = orders
       /\ (/\ cc.pc = "loop" /\ cc' # cc
           /\ orders[Head(cc.list).h].status # Head(cc.list).status)
                => orders' = orders
       /\ (/\ dm.pc = "loop" /\ dm' # dm
           /\ orders[Head(dm.list).h].status # "AwaitingDeposit")
                => orders' = orders
       /\ (ex.pc = "update" /\ ex'.pc = "idle")
                => \A h \in Handles :
                      orders[h].status # "AwaitingDeposit" => orders'[h] = orders[h]]_vars

\* C27: the update of the expiry sweeper changes only orders that are still in
\* AwaitingDeposit with expires_at earlier than the sweep time, and moves
\* those to Expired; every other order, one that left AwaitingDeposit after the
\* sweeper selected it and a Created one included, is left unchanged.
C27_SweeperTouchesOnlyAwaitingDeposit ==
    [][(ex.pc = "update" /\ ex'.pc = "idle")
        => \A h \in Handles :
              IF Exists(h) /\ orders[h].status = "AwaitingDeposit"
                           /\ orders[h].expires_at < ex.now
              THEN orders'[h] = [orders[h] EXCEPT !.status = "Expired",
                                                  !.step = step("Expired")]
              ELSE orders'[h] = orders[h]]_vars

\* C27 witness: the sweeper has run its update for an order it had selected
\* (its expiry event is the last one published) and that had meanwhile been
\* moved to DepositDetected (the event published before): the order is still
\* in DepositDetected
C27_Witness ==
    \E h \in Handles :
        /\ Exists(h)
        /\ orders[h].status = "DepositDetected"
        /\ ex.pc = "idle" /\ ex.swept > orders[h].expires_at
        /\ Len(events[h]) >= 2
        /\ SubSeq(events[h], Len(events[h]) - 1, Len(events[h]))
              = <<"DepositDetected", "expired">>

\* C28: under every interleaving of audit log calls no two audit entries
\* carry the same prev_hash, and the prev_hash of every entry but the first is
\* the content_hash of the entry inserted immediately before it.
C28_ConcurrentAppendsDoNotFork ==
    /\ \A i, j \in DOMAIN audit_logs :
          i # j => audit_logs[i].prev_hash # audit_logs[j].prev_hash
    /\ \A i \in DOMAIN audit_logs :
          i > 1 => audit_logs[i].prev_hash = audit_logs[i - 1].content_hash

\* the status_changed entries of the audit chain for the order h, in order
C29_Entries(h) ==
    LET IsTransitionOf(a) == a.entity_id = h /\ a.action = "status_changed"
    IN SelectSeq(audit_logs, IsTransitionOf)

\* the event e announces the status s
C29_Announces(e, s) == e = s \/ (s = "Expired" /\ e = "expired")

\* no call and no loop iteration is in flight
C29_Quiescent ==
    /\ \A t \in DOMAIN api : api[t].pc = "idle"
    /\ dm.pc = "idle" /\ cc.pc = "idle" /\ ex.pc = "idle"
    /\ \A p \in Procs : wp[p].pc = "idle"

\* C29: when neither the audit store nor the event bus has failed and nothing
\* is in flight, every persisted transition of an order has exactly one entry
\* in the audit chain and one event on the channel of the order: the
\* status_changed entries of the order lead from Created, each from the
\* status the one before led to, to the stored status, and the events after
\* the creation event announce the same statuses in the same order.
C29_EveryTransitionAuditedAndPublished ==
    (C29_Quiescent /\ db_errors = 0 /\ ~bus_lossy)
        => \A h \in Handles : Exists(h) =>
              LET es == C29_Entries(h)
                  n  == Len(es)
              IN /\ orders[h].status =
                        IF n = 0 THEN "Created" ELSE es[n].details.to
                 /\ \A i \in 1..n :
                        es[i].details.from =
                            IF i = 1 THEN "Created" ELSE es[i - 1].details.to
                 /\ Len(events[h]) = n + 1
                 /\ \A i \in 1..n : C29_Announces(events[h][i + 1], es[i].details.to)

\* C30: once update_status has written the new status, the order keeps it
\* through the audit write and the publish, whatever their outcome: no step
\* of the audit append changes the order, a failed append included, and when
\* the publish is lost the call goes on as if it had been delivered.
C30_FailuresNeverUndoTransition ==
    [][\A t \in DOMAIN api :
          (/\ api[t].pc \in {"audit_select", "audit_insert"}
           /\ api[t].entry.action = "status_changed"
           /\ api'[t] # api[t])
              => /\ orders'[api[t].h].status = api[t].entry.details.to
                 /\ orders' = orders
                 /\ (api[t].pc = "audit_insert" /\ audit_logs' # audit_logs
                                                /\ events' = events)
                       => api'[t] = AfterAudit(t)]_vars

\* C30 witness: the audit append of the transition to Failed failed (the chain
\* has no entry for it) and the order stayed Failed, so that the refund went
\* through; the event of the transition to Refunding was lost and the refund
\* returned Ok
C30_Witness ==
    \E h \in Handles :
        /\ Exists(h)
        /\ orders[h].status = "Refunding"
        /\ api["t1"] = Returned("refund", "Ok")
        /\ \A i \in DOMAIN audit_logs :
              audit_logs[i].action = "status_changed" => audit_logs[i].details.to # "Failed"
        /\ \A i \in DOMAIN events[h] : events[h][i] # "Refunding"

(***************************************************************************)
(* Claims about the conversion (SpecConv)                                  *)
(***************************************************************************)
\* x / 100, exactly
Hundredth(x) == Dec(x.m, x.s + 2)

\* the three relations between the amounts of an order
C22_Relations(o) ==
    /\ DecEq(o.fee, Hundredth(DecMul(o.from_amount, o.fee_percent)))
    /\ DecEq(o.to_amount, DecMul(DecSub(o.from_amount, o.fee), o.rate_at_creation))
    /\ DecEq(o.min_received, DecMul(o.to_amount, DecSub(DecOne, Hundredth(o.slippage))))

\* the order of the example: amount 1.5, rate 0.005, fee_percent 0.3, slippage 0.5
C22_Example(o) ==
    /\ DecEq(o.from_amount, Dec(15, 1)) /\ DecEq(o.rate_at_creation, Dec(5, 3))
    /\ DecEq(o.fee_percent, Dec(3, 1)) /\ DecEq(o.slippage, Dec(5, 1))

C31_ErrorMeansUnchanged ==
    [][\A t \in DOMAIN api :
          /\ (/\ api[t].pc \in {"idle", "us_read"}
              /\ api'[t].pc = "idle" /\ api'[t].ret \in {"NotFound", "Conflict"})
                => orders' = orders
          /\ (/\ api[t].pc = "audit_insert"
              /\ api[t].entry.action = "status_changed"
              /\ api'[t] = Returned(api[t].op, "DbError"))
                => /\ orders'[api[t].h].status = api[t].entry.details.from
                   /\ orders'[api[t].h].step = step(api[t].entry.details.from)]_vars

(***************************************************************************)
(* Claims about the withdrawal processor (SpecWp)                          *)
(***************************************************************************)

\* a signing session of the coordinator for the order h has completed
C32_SignedFor(h) ==
    /\ h \in DOMAIN active_requests
    /\ active_requests[h].status = "Complete"

\* C32: the withdrawal processor moves an order to Sending, and then to
\* Completed, only when the coordinator holds a Complete signing session whose
\* request_id is the order handle.
C32_SendingOnlyAfterSignature ==
    [][\A p \in Procs :
          (/\ wp[p].pc \in {"sending", "complete"}
           /\ orders'[wp[p].h].status \in {"Sending", "Completed"}
           /\ orders'[wp[p].h] # orders[wp[p].h])
              => C32_SignedFor(wp[p].h)]_vars

\* the run p of the processor has passed its Bridging check and not yet ended
C33_Acting(p) == wp[p].pc \notin {"idle", "start"}

\* C33: at most one withdrawal processor run acts on a given order: a run
\* invoked on an order that is not in Bridging ends at its check and changes
\* nothing, and no two runs are past the check for the same order.
C33_AtMostOneRunPerOrder ==
    [][/\ \A p \in Procs :
             (/\ wp[p].pc = "start" /\ wp'[p] # wp[p]
              /\ ~(Exists(wp[p].h) /\ orders[wp[p].h].status = "Bridging"))
                 => /\ wp'[p] = ProcIdle
                    /\ UNCHANGED <<orders, audit_logs, audit_log, events>>
       /\ \A p, q \in Procs :
             (p # q /\ C33_Acting(p)' /\ C33_Acting(q)') => wp'[p].h # wp'[q].h]_vars

(***************************************************************************)
(* Claims about restarts (SpecRestart)                                     *)
(***************************************************************************)

\* C34: under fair scheduling an order in Bridging, Signing or Sending
\* eventually is Completed or Failed, also when the process restarts
\* meanwhile: no order stays in one of these three statuses forever.
C34_BridgingEventuallyEnds ==
    \A h \in Handles :
        (Exists(h) /\ orders[h].status \in {"Bridging", "Signing", "Sending"})
            ~> (orders[h].status \in {"Completed", "Failed"})

(***************************************************************************)
(* Claims about the ticks of the periodic drivers (Spec)                   *)
(***************************************************************************)

C38_ExpiryEventOnlyForExpired ==
    [][(ex.pc = "update" /\ ex'.pc = "idle")
          => \A h \in Handles :
                events'[h] # events[h]
                   => /\ orders[h].status = "AwaitingDeposit"
                      /\ orders'[h].status = "Expired"]_vars

(***************************************************************************)
(* Further claims about the coordinator (SpecCoord)                        *)
(***************************************************************************)

\* C39: the status of a signing session only moves forward, from Pending to
\* Complete or from Pending to Failed, and no coordinator call changes the
\* status or the share map of a session that is Complete.
C39_SessionStatusMovesForward ==
    [][\A rid \in DOMAIN active_requests :
          /\ rid \in DOMAIN active_requests'
          /\ active_requests'[rid].status # active_requests[rid].status
                => /\ active_requests[rid].status = "Pending"
                   /\ active_requests'[rid].status \in {"Complete", "Failed"}
          /\ active_requests[rid].status = "Complete"
                => /\ active_requests'[rid].status = "Complete"
                   /\ active_requests'[rid].shares = active_requests[rid].shares]_vars

(***************************************************************************)
(* Claims about the quoted rate (SpecQuote)                                *)
(***************************************************************************)

\* C40: the rate get_rate returned for an order and the amount computed from
\* it are strictly positive: every order has rate_at_creation > 0 and
\* to_amount > 0, whatever prices the sources reported.
C40_RatesArePositive ==
    \A h \in Handles :
        Exists(h) => /\ orders[h].rate_at_creation.m > 0
                     /\ orders[h].to_amount.m > 0

====
